---- MODULE Spec2Model ----
(***************************************************************************)
(* A model of the csv_merge duplicate-detection engine:                    *)
(*   - BloomFilter   (utils/BloomFilter)                                    *)
(*   - WorkerPool    (src/workers/WorkerPool.ts)                            *)
(*   - the csv worker (buildEmailIndex / findDuplicates)                    *)
(*   - CSVDuplicateDetector (src/core/CSVDuplicateDetector.ts)              *)
(*                                                                         *)
(* Strings are sequences of character codes, so that lowercasing,          *)
(* trimming, splitting and hashing are computed as the code computes them. *)
(***************************************************************************)
EXTENDS Integers, Sequences, FiniteSets, TLC

VARIABLES
    \* ---- WorkerPool ----
    workers,        \* Seq of [busy : BOOLEAN]; a unit's handle is its position
    queue,          \* Seq of request ids waiting for a unit (FIFO)
    reqState,       \* request id -> [st, unit, queued]: how each getWorker() promise stands
    nextReq,        \* id of the next getWorker() call of the pool clients
    poolTerminated, \* terminate() has been called
    \* ---- BloomFilter ----
    bitArray,       \* the set of bit indices that are set
    bfAdded,        \* items added since the filter was created or cleared
    bfLast,         \* the last test(item) call and what it returned
    \* ---- CSVDuplicateDetector ----
    emailIndex,             \* key -> Seq of index records
    allDuplicates,          \* Seq of duplicate results
    isProcessing,
    isPaused,
    currentPhase,           \* "phase1" | "phase2" | "phase3"
    originalBasisFile,      \* a file, or NoFile
    currentColumnMapping,   \* a column mapping, or NoMapping
    startTime,              \* Date.now() at the start of the run, as the number of the run
    rowsProcessed,
    summary,                \* the phase counters
    filteredDomains,
    phase3LogMessages,      \* the kinds of the messages logged by the last Phase-3 filtering
    finalFilteredBasisData,
    published,              \* what onResults was last called with
    lastCall,               \* the last processFiles call and how it began
    runs,                   \* the processFiles invocations: where each one stands
    p3,                     \* the applyPhase3Filtering invocation in flight
    \* ---- the csv worker ----
    wk,                     \* the last call of a worker function and its result
    \* ---- streamCSV ----
    stream                  \* a batch sequence: the generator, its queue and its parser

poolVars  == <<workers, queue, reqState, nextReq, poolTerminated>>
bloomVars == <<bitArray, bfAdded, bfLast>>
ctlVars   == <<emailIndex, allDuplicates, isProcessing, isPaused, currentPhase,
               originalBasisFile, currentColumnMapping, startTime, rowsProcessed,
               summary, filteredDomains, phase3LogMessages, finalFilteredBasisData,
               published,
               lastCall, runs, p3>>
workerVars == <<wk>>
streamVars == <<stream>>
vars      == <<poolVars, bloomVars, ctlVars, workerVars, streamVars>>

(***************************************************************************)
(* Bounds of the model.                                                    *)
(***************************************************************************)
MaxWorkers == 2
MaxRequests == 4
MaxItemLen == 2
MaxAdds == 3
MaxRuns == 1
BasisChunkSize == 2
ComparisonChunkSize == 2
MaxSessionRuns == 2
MaxNameLen == 3
MaxStreamRows == 5
MaxPush == 3

(***************************************************************************)
(* Characters and strings.                                                 *)
(***************************************************************************)
\* the character codes the inputs of the model are written with
Chr ==
    [sp |-> 32, dot |-> 46, at |-> 64, A |-> 65, B |-> 66, D |-> 68, J |-> 74,
     X |-> 88, a |-> 97, b |-> 98, c |-> 99, d |-> 100, e |-> 101, j |-> 106,
     m |-> 109, n |-> 110, o |-> 111, x |-> 120, y |-> 121]

\* String.prototype.toLowerCase on the ASCII range
LowerChar(c) ==
    IF c >= 65 /\ c <= 90 THEN c + 32 ELSE c

toLowerCase(s) ==
    [i \in 1..Len(s) |-> LowerChar(s[i])]

IsSpace(c) ==
    c \in {9, 10, 11, 12, 13, 32}

\* String.prototype.trim
trim(s) ==
    LET keep == {i \in 1..Len(s) : ~IsSpace(s[i])}
    IN  IF keep = {} THEN <<>>
        ELSE LET lo == CHOOSE i \in keep : \A j \in keep : i <= j
                 hi == CHOOSE i \in keep : \A j \in keep : i >= j
             IN  SubSeq(s, lo, hi)

StringsUpTo(A, n) ==
    UNION {[1..k -> A] : k \in 0..n}

(***************************************************************************)
(* BloomFilter                                                             *)
(***************************************************************************)
\* new BloomFilter(100000, 0.01):
\*   size      = ceil(-100000 * ln(0.01) / (ln 2)^2) = 958506
\*   hashCount = ceil((958506 / 100000) * ln 2)      = 7
BloomSize == 958506
BloomHashCount == 7

M31 == 2147483647
Two26 == 2^26

\* (a + b) mod 2^31 for 0 <= a, b < 2^31, without leaving 32-bit integers
AddMod31(a, b) ==
    IF a > M31 - b THEN (a - (M31 - b)) - 1 ELSE a + b

\* (h * 31) mod 2^31 for 0 <= h < 2^31
Mul31Mod31(h) ==
    LET lo == h % Two26
        hi == h \div Two26
    IN  AddMod31(lo * 31, ((hi * 31) % 32) * Two26)

RECURSIVE HashFrom(_, _, _)
HashFrom(h, item, i) ==
    IF i > Len(item) THEN h
    ELSE HashFrom(AddMod31(Mul31Mod31(h), item[i]), item, i + 1)

\* hash = ((hash * 31) + charCode) & 0x7fffffff over the characters; hash % size
hash(item, seed) ==
    HashFrom(seed, item, 1) % BloomSize

BitsOf(item) ==
    {hash(item, i) : i \in 0..(BloomHashCount - 1)}

BloomAdd_skipSeed0(bits, item) ==
    bits \cup {hash(item, i) : i \in 1..(BloomHashCount - 1)}

\* BloomFilter.add: the bit array after add(item)
BloomAdd(bits, item) ==
    bits \cup BitsOf(item)

\* BloomFilter.test
BloomTest(bits, item) ==
    \A i \in 0..(BloomHashCount - 1) : hash(item, i) \in bits

\* BloomFilter.clear
BloomClear(bits) ==
    {}

\* the filter after adding every item of a set to a fresh filter
BloomOfSet(items) ==
    UNION {BitsOf(k) : k \in items}

Str_long1 == <<Chr.a, Chr.b, Chr.at, Chr.x, Chr.y, Chr.dot, Chr.c, Chr.o, Chr.m>>  \* "ab@xy.com"
Str_long2 == <<Chr.A, Chr.B, Chr.at, Chr.X, Chr.y, Chr.dot, Chr.c, Chr.o, Chr.m>>  \* "AB@Xy.com"

BloomItems ==
    StringsUpTo({Chr.a, Chr.B}, MaxItemLen) \cup {Str_long1, Str_long2}

NoTest == [item |-> <<>>, tested |-> FALSE, result |-> FALSE]

BfAdd(item) ==
    /\ Cardinality(bfAdded) < MaxAdds
    /\ bitArray' = BloomAdd(bitArray, item)
    /\ bfAdded' = bfAdded \cup {item}
    /\ bfLast' = NoTest
    /\ UNCHANGED <<poolVars, ctlVars, workerVars, streamVars>>

BfTest(item) ==
    /\ bfLast' = [item |-> item, tested |-> TRUE, result |-> BloomTest(bitArray, item)]
    /\ UNCHANGED <<bitArray, bfAdded, poolVars, ctlVars, workerVars, streamVars>>

BfClear ==
    /\ bfAdded # {}
    /\ bitArray' = BloomClear(bitArray)
    /\ bfAdded' = {}
    /\ bfLast' = NoTest
    /\ UNCHANGED <<poolVars, ctlVars, workerVars, streamVars>>

(***************************************************************************)
(* WorkerPool                                                              *)
(***************************************************************************)
IdleUnits(ws) ==
    {i \in 1..Len(ws) : ~ws[i].busy}

\* Array.prototype.find(w => !w.busy): the first idle unit, 0 when there is none
FirstIdle(ws) ==
    IF IdleUnits(ws) = {} THEN 0
    ELSE CHOOSE i \in IdleUnits(ws) : \A j \in IdleUnits(ws) : i <= j

BusyCount(ws) ==
    Cardinality({i \in 1..Len(ws) : ws[i].busy})

getWorker_noBusyMark(ws, q, req) ==
    LET u == FirstIdle(ws)
    IN  IF u # 0
        THEN [workers |-> ws, queue |-> q,
              state |-> [st |-> "granted", unit |-> u, queued |-> FALSE]]
        ELSE [workers |-> ws, queue |-> Append(q, req),
              state |-> [st |-> "waiting", unit |-> 0, queued |-> TRUE]]

\* WorkerPool.getWorker for request req: the pool afterwards and how the
\* request's promise stands (resolved with a unit, or left pending in the queue)
getWorker(ws, q, req) ==
    LET u == FirstIdle(ws)
    IN  IF u # 0
        THEN [workers |-> [ws EXCEPT ![u].busy = TRUE], queue |-> q,
              state |-> [st |-> "granted", unit |-> u, queued |-> FALSE]]
        ELSE [workers |-> ws, queue |-> Append(q, req),
              state |-> [st |-> "waiting", unit |-> 0, queued |-> TRUE]]

releaseWorker_lifo(ws, q, u) ==
    IF u \in 1..Len(ws)
    THEN IF Len(q) > 0
         THEN [workers |-> [ws EXCEPT ![u].busy = TRUE],
               queue |-> SubSeq(q, 1, Len(q) - 1), grantTo |-> q[Len(q)]]
         ELSE [workers |-> [ws EXCEPT ![u].busy = FALSE], queue |-> q,
               grantTo |-> 0]
    ELSE [workers |-> ws, queue |-> q, grantTo |-> 0]

releaseWorker_idle(ws, q, u) ==
    IF u \in 1..Len(ws)
    THEN [workers |-> [ws EXCEPT ![u].busy = FALSE], queue |-> q, grantTo |-> 0]
    ELSE [workers |-> ws, queue |-> q, grantTo |-> 0]

\* WorkerPool.releaseWorker for the unit with handle u: the pool afterwards and
\* the queued request (if any) whose promise is resolved with the unit
releaseWorker(ws, q, u) ==
    IF u \in 1..Len(ws)
    THEN IF Len(q) > 0
         THEN [workers |-> [ws EXCEPT ![u].busy = TRUE],
               queue |-> Tail(q), grantTo |-> Head(q)]
         ELSE [workers |-> [ws EXCEPT ![u].busy = FALSE], queue |-> q,
               grantTo |-> 0]
    ELSE [workers |-> ws, queue |-> q, grantTo |-> 0]

\* WorkerPool.getUtilization as the fraction num/den
getUtilization(ws) ==
    IF Len(ws) = 0 THEN [num |-> 0, den |-> 1]
    ELSE [num |-> BusyCount(ws), den |-> Len(ws)]

terminate_noReject(ws, q) ==
    [workers |-> <<>>, queue |-> <<>>, rejected |-> {}]

\* WorkerPool.terminate: the pool afterwards and the requests whose promise is rejected
terminate(ws, q) ==
    [workers |-> <<>>, queue |-> <<>>, rejected |-> {q[i] : i \in 1..Len(q)}]

\* the request states after releaseWorker(u): the oldest waiter's promise is
\* resolved with the unit's proxy
AfterRelease(rs, r, u) ==
    IF r.grantTo = 0 THEN rs
    ELSE [rs EXCEPT ![r.grantTo] = [st |-> "granted", unit |-> u, queued |-> TRUE]]

Units(n) ==
    [i \in 1..n |-> [busy |-> FALSE]]

\* a client of the pool calls getWorker()
PoolAcquire ==
    /\ nextReq <= MaxRequests
    /\ LET r == getWorker(workers, queue, nextReq)
       IN  /\ workers' = r.workers
           /\ queue' = r.queue
           /\ reqState' = (nextReq :> r.state) @@ reqState
    /\ nextReq' = nextReq + 1
    /\ UNCHANGED <<poolTerminated, bloomVars, ctlVars, workerVars, streamVars>>

\* a client that holds a unit calls releaseWorker() with the unit it acquired
PoolRelease ==
    \E req \in DOMAIN reqState :
        /\ reqState[req].st = "granted"
        /\ LET u == reqState[req].unit
               r == releaseWorker(workers, queue, u)
           IN  /\ workers' = r.workers
               /\ queue' = r.queue
               /\ reqState' = AfterRelease([reqState EXCEPT ![req].st = "released"], r, u)
        /\ UNCHANGED <<nextReq, poolTerminated, bloomVars, ctlVars, workerVars, streamVars>>

\* terminate() is called
PoolTerminate ==
    /\ ~poolTerminated
    /\ LET r == terminate(workers, queue)
       IN  /\ workers' = r.workers
           /\ queue' = r.queue
           /\ reqState' = [q \in DOMAIN reqState |->
                             IF q \in r.rejected
                             THEN [reqState[q] EXCEPT !.st = "rejected"]
                             ELSE reqState[q]]
    /\ poolTerminated' = TRUE
    /\ UNCHANGED <<nextReq, bloomVars, ctlVars, workerVars, streamVars>>

(***************************************************************************)
(* Rows, column mappings and files                                         *)
(***************************************************************************)
\* row[column]: a missing column reads as undefined, which every use below
\* treats like the empty string
Field(row, col) ==
    IF col \in DOMAIN row THEN row[col] ELSE <<>>

normalizeEmail_noTrim(email) ==
    IF email = <<>> THEN <<>> ELSE toLowerCase(email)

\* CSVDuplicateDetector.normalizeEmail and the worker's normalizeEmail (cell
\* values are strings): '' for a falsy value, else lowercase and trim
normalizeEmail(email) ==
    IF email = <<>> THEN <<>> ELSE trim(toLowerCase(email))

\* the position of the first occurrence of character c in s at or after
\* position from, 0 when there is none
IndexOfFrom(s, c, from) ==
    LET hits == {i \in from..Len(s) : s[i] = c}
    IN  IF hits = {} THEN 0 ELSE CHOOSE i \in hits : \A j \in hits : i <= j

\* email.split('@')[1] when the split has more than one part, else '':
\* the text between the first '@' and the next one (or the end)
SplitDomain(email) ==
    LET p1 == IndexOfFrom(email, Chr.at, 1)
    IN  IF p1 = 0 THEN <<>>
        ELSE LET p2 == IndexOfFrom(email, Chr.at, p1 + 1)
             IN  IF p2 = 0 THEN SubSeq(email, p1 + 1, Len(email))
                 ELSE SubSeq(email, p1 + 1, p2 - 1)

NameParts_lastSpace(row, m) ==
    IF m.splitNameColumn /\ m.firstNameColumn = m.lastNameColumn
    THEN LET fullName == trim(Field(row, m.firstNameColumn))
             spaces == {i \in 1..Len(fullName) : fullName[i] = Chr.sp}
             spaceIndex == IF spaces = {} THEN 0
                           ELSE CHOOSE i \in spaces : \A j \in spaces : i >= j
         IN  IF spaceIndex > 1
             THEN [firstName |-> SubSeq(fullName, 1, spaceIndex - 1),
                   lastName |-> SubSeq(fullName, spaceIndex + 1, Len(fullName))]
             ELSE [firstName |-> fullName, lastName |-> <<>>]
    ELSE [firstName |-> Field(row, m.firstNameColumn),
          lastName |-> Field(row, m.lastNameColumn)]

\* firstName / lastName of a row under a column mapping (index builder,
\* matcher and the Phase-3 rebuild use the same rule)
NameParts(row, m) ==
    IF m.splitNameColumn /\ m.firstNameColumn = m.lastNameColumn
    THEN LET fullName == trim(Field(row, m.firstNameColumn))
             spaceIndex == IndexOfFrom(fullName, Chr.sp, 1)
         IN  IF spaceIndex > 1
             THEN [firstName |-> SubSeq(fullName, 1, spaceIndex - 1),
                   lastName |-> SubSeq(fullName, spaceIndex + 1, Len(fullName))]
             ELSE [firstName |-> fullName, lastName |-> <<>>]
    ELSE [firstName |-> Field(row, m.firstNameColumn),
          lastName |-> Field(row, m.lastNameColumn)]

\* the positions of a sequence, in order
Positions(s) ==
    [i \in 1..Len(s) |-> i]

(***************************************************************************)
(* The csv worker                                                          *)
(***************************************************************************)
IndexRecord(row, i, sourceFile, m, email) ==
    [email |-> email,
     firstName |-> NameParts(row, m).firstName,
     lastName |-> NameParts(row, m).lastName,
     sourceFile |-> sourceFile,
     rowIndex |-> i - 1]

\* buildEmailIndex: key -> records of the chunk's rows with that key, in row
\* order; rows with an empty key are skipped; rowIndex is the 0-based
\* position in the chunk
buildEmailIndex(chunk, sourceFile, m) ==
    LET key(i) == normalizeEmail(Field(chunk[i], m.emailColumn))
        keys == {key(i) : i \in 1..Len(chunk)} \ {<<>>}
    IN  [k \in keys |->
            LET idx == SelectSeq(Positions(chunk), LAMBDA i : key(i) = k)
            IN  [j \in 1..Len(idx) |->
                    IndexRecord(chunk[idx[j]], idx[j], sourceFile, m, k)]]

calculateSimilarity_overShorter(str1, str2) ==
    IF str1 = <<>> \/ str2 = <<>> THEN [num |-> 0, den |-> 1]
    ELSE LET s1 == trim(toLowerCase(str1))
             s2 == trim(toLowerCase(str2))
             minLen == IF Len(s1) < Len(s2) THEN Len(s1) ELSE Len(s2)
         IN  IF s1 = s2 THEN [num |-> 1, den |-> 1]
             ELSE IF Len(s1) = 0 \/ Len(s2) = 0 THEN [num |-> 0, den |-> 1]
             ELSE [num |-> Cardinality({i \in 1..minLen : s1[i] = s2[i]}),
                   den |-> minLen]

\* calculateSimilarity as the fraction num/den
calculateSimilarity(str1, str2) ==
    IF str1 = <<>> \/ str2 = <<>> THEN [num |-> 0, den |-> 1]
    ELSE LET s1 == trim(toLowerCase(str1))
             s2 == trim(toLowerCase(str2))
             minLen == IF Len(s1) < Len(s2) THEN Len(s1) ELSE Len(s2)
             maxLen == IF Len(s1) < Len(s2) THEN Len(s2) ELSE Len(s1)
         IN  IF s1 = s2 THEN [num |-> 1, den |-> 1]
             ELSE IF Len(s1) = 0 \/ Len(s2) = 0 THEN [num |-> 0, den |-> 1]
             ELSE [num |-> Cardinality({i \in 1..minLen : s1[i] = s2[i]}),
                   den |-> maxLen]

\* confidence = (1.0 + firstNameSim + lastNameSim) / 3 as the fraction num/den
Confidence(f, l) ==
    [num |-> f.den * l.den + f.num * l.den + l.num * f.den,
     den |-> 3 * f.den * l.den]

Accepted_twoThirds(c) ==
    3 * c.num >= 2 * c.den

\* confidence >= 0.7
Accepted(c) ==
    10 * c.num >= 7 * c.den

CandidateConfidence(names, candidate) ==
    Confidence(calculateSimilarity(names.firstName, candidate.firstName),
               calculateSimilarity(names.lastName, candidate.lastName))

RowDuplicates_lastMatch(row, i, index, sourceFile, m) ==
    LET email == normalizeEmail(Field(row, m.emailColumn))
        names == NameParts(row, m)
    IN  IF email = <<>> \/ email \notin DOMAIN index THEN <<>>
        ELSE LET candidates == index[email]
                 hits == {j \in 1..Len(candidates) :
                             /\ candidates[j].sourceFile # sourceFile
                             /\ Accepted(CandidateConfidence(names, candidates[j]))}
             IN  IF hits = {} THEN <<>>
                 ELSE LET j == CHOOSE h \in hits : \A g \in hits : h >= g
                      IN  <<[id |-> <<email, sourceFile, i - 1>>,
                             email |-> email,
                             firstName |-> names.firstName,
                             lastName |-> names.lastName,
                             sourceFile |-> sourceFile,
                             confidence |-> CandidateConfidence(names, candidates[j]),
                             rowIndex |-> i - 1]>>

RowDuplicates_anySource(row, i, index, sourceFile, m) ==
    LET email == normalizeEmail(Field(row, m.emailColumn))
        names == NameParts(row, m)
    IN  IF email = <<>> \/ email \notin DOMAIN index THEN <<>>
        ELSE LET candidates == index[email]
                 hits == {j \in 1..Len(candidates) :
                             Accepted(CandidateConfidence(names, candidates[j]))}
             IN  IF hits = {} THEN <<>>
                 ELSE LET j == CHOOSE h \in hits : \A g \in hits : h <= g
                      IN  <<[id |-> <<email, sourceFile, i - 1>>,
                             email |-> email,
                             firstName |-> names.firstName,
                             lastName |-> names.lastName,
                             sourceFile |-> sourceFile,
                             confidence |-> CandidateConfidence(names, candidates[j]),
                             rowIndex |-> i - 1]>>

\* the result findDuplicates emits for row i of the chunk (none or one): the
\* first candidate under the row's key that is from another source and scores
\* at least 0.7
RowDuplicates(row, i, index, sourceFile, m) ==
    LET email == normalizeEmail(Field(row, m.emailColumn))
        names == NameParts(row, m)
    IN  IF email = <<>> \/ email \notin DOMAIN index THEN <<>>
        ELSE LET candidates == index[email]
                 hits == {j \in 1..Len(candidates) :
                             /\ candidates[j].sourceFile # sourceFile
                             /\ Accepted(CandidateConfidence(names, candidates[j]))}
             IN  IF hits = {} THEN <<>>
                 ELSE LET j == CHOOSE h \in hits : \A g \in hits : h <= g
                      IN  <<[id |-> <<email, sourceFile, i - 1>>,
                             email |-> email,
                             firstName |-> names.firstName,
                             lastName |-> names.lastName,
                             sourceFile |-> sourceFile,
                             confidence |-> CandidateConfidence(names, candidates[j]),
                             rowIndex |-> i - 1]>>

RECURSIVE DuplicatesFrom(_, _, _, _, _)
DuplicatesFrom(chunk, i, index, sourceFile, m) ==
    IF i > Len(chunk) THEN <<>>
    ELSE RowDuplicates(chunk[i], i, index, sourceFile, m)
             \o DuplicatesFrom(chunk, i + 1, index, sourceFile, m)

\* findDuplicates: the results for the rows of the chunk, in row order
findDuplicates(chunk, index, sourceFile, m) ==
    DuplicatesFrom(chunk, 1, index, sourceFile, m)

(***************************************************************************)
(* CSVDuplicateDetector: helpers                                           *)
(***************************************************************************)
\* buildIndexFromChunk, lines 515-521: the worker's records are appended to
\* the main index under their key
MergeIndex(index, result) ==
    [k \in (DOMAIN index) \cup (DOMAIN result) |->
        (IF k \in DOMAIN index THEN index[k] ELSE <<>>)
            \o (IF k \in DOMAIN result THEN result[k] ELSE <<>>)]

\* buildIndexFromChunk, line 523: every key of the worker's result is added
\* to the filter
RECURSIVE BloomAddAll(_, _)
BloomAddAll(bits, items) ==
    IF items = {} THEN bits
    ELSE LET k == CHOOSE x \in items : TRUE
         IN  BloomAddAll(BloomAdd(bits, k), items \ {k})

\* findDuplicatesInChunk, lines 539-541: the keys of the chunk that the
\* filter reports as possibly present
CandidateEmails(chunk, m, bits) ==
    {e \in {normalizeEmail(Field(chunk[i], m.emailColumn)) : i \in 1..Len(chunk)} :
        e # <<>> /\ BloomTest(bits, e)}

getIndexSubset_none(index, emails) ==
    [k \in {} |-> <<>>]

\* getIndexSubset
getIndexSubset(index, emails) ==
    [k \in (emails \cap DOMAIN index) |-> index[k]]

(***************************************************************************)
(* Inputs of the model: strings, rows, files, mappings, domain lists       *)
(***************************************************************************)
Str ==
    [a_x    |-> <<Chr.a, Chr.at, Chr.x>>,             \* "a@x"
     A_X_sp |-> <<Chr.A, Chr.at, Chr.X, Chr.sp>>,     \* "A@X "
     b_y    |-> <<Chr.b, Chr.at, Chr.y>>,             \* "b@y"
     a_spx  |-> <<Chr.a, Chr.at, Chr.sp, Chr.x>>,     \* "a@ x"
     x      |-> <<Chr.x>>,                            \* "x"
     X_sp   |-> <<Chr.X, Chr.sp>>,                    \* "X "
     y      |-> <<Chr.y>>,                            \* "y"
     Jo     |-> <<Chr.J, Chr.o>>,                     \* "Jo"
     jo     |-> <<Chr.j, Chr.o>>,                     \* "jo"
     Do     |-> <<Chr.D, Chr.o>>,                     \* "Do"
     De     |-> <<Chr.D, Chr.e>>,                     \* "De"
     Ann    |-> <<Chr.A, Chr.n, Chr.n>>,              \* "Ann"
     empty  |-> <<>>]

Row(email, first, last) ==
    [email |-> email, firstname |-> first, lastname |-> last]

NoFile == [name |-> "", rows |-> <<>>, ok |-> FALSE]

NoMapping ==
    [emailColumn |-> "", firstNameColumn |-> "", lastNameColumn |-> "",
     splitNameColumn |-> FALSE, groupsColumn |-> ""]

\* the column mapping the application passes (App.tsx, lines 27-33)
DefaultMapping ==
    [emailColumn |-> "email", firstNameColumn |-> "firstname",
     lastNameColumn |-> "lastname", splitNameColumn |-> FALSE,
     groupsColumn |-> "Groups"]

\* the basis file: three rows with a key, a row with a blank key and a row
\* without the key column
BasisA ==
    [name |-> "basis.csv", ok |-> TRUE,
     rows |-> <<Row(Str.A_X_sp, Str.Jo, Str.Do),
                Row(Str.b_y, Str.Ann, Str.De),
                Row(Str.a_spx, Str.Jo, Str.Do),
                Row(<<Chr.sp>>, Str.Ann, Str.Do),
                [firstname |-> Str.Jo, lastname |-> Str.De]>>]

\* a basis file whose parse fails after three rows
BasisBad ==
    [name |-> "broken.csv", ok |-> FALSE,
     rows |-> <<Row(Str.b_y, Str.Ann, Str.De),
                Row(Str.a_x, Str.Jo, Str.Do),
                Row(Str.a_x, Str.Ann, Str.De)>>]

CompA ==
    [name |-> "list1.csv", ok |-> TRUE,
     rows |-> <<Row(Str.a_x, Str.jo, Str.Do),
                Row(Str.empty, Str.Jo, Str.Do),
                Row(Str.b_y, Str.Ann, Str.Do)>>]

CompB ==
    [name |-> "list2.csv", ok |-> TRUE,
     rows |-> <<Row(Str.a_spx, Str.Jo, Str.Do)>>]

\* a comparison file whose parse fails after two rows
CompBad ==
    [name |-> "list3.csv", ok |-> FALSE,
     rows |-> <<Row(Str.b_y, Str.Ann, Str.De),
                Row(Str.a_x, Str.Jo, Str.Do)>>]

BasisFiles == {BasisA, BasisBad}

ComparisonLists == {<<>>, <<CompA, CompB>>, <<CompBad>>}

Mappings == {DefaultMapping}

DomainLists == {<<Str.X_sp>>, <<Str.y, Str.x>>}

Phases == {"phase1", "phase2", "phase3"}

\* which of the patterns getEffectiveColumnMapping looks for occur in the
\* lowercased name of each file of the model
NamePatterns(fileName) ==
    CASE fileName = "contacts_rows.csv" -> {"contacts_rows"}
      [] fileName = "ccm_contacts.csv" -> {"ccm", "contact"}
      [] fileName = "jungo_contacts.csv" -> {"jungo", "contact"}
      [] OTHER -> {}

getEffectiveColumnMapping(fileName, defaultMapping) ==
    LET has == NamePatterns(fileName)
    IN  IF "contacts_rows" \in has \/ "contacts-rows" \in has
        THEN [emailColumn |-> "email", firstNameColumn |-> "firstname",
              lastNameColumn |-> "lastname", splitNameColumn |-> FALSE,
              groupsColumn |-> ""]
        ELSE IF "ccm" \in has /\ "contact" \in has
        THEN [emailColumn |-> "email", firstNameColumn |-> "Name",
              lastNameColumn |-> "Name", splitNameColumn |-> TRUE,
              groupsColumn |-> "Groups"]
        ELSE IF "jungo" \in has /\ "contact" \in has
        THEN [emailColumn |-> "email", firstNameColumn |-> "firstname",
              lastNameColumn |-> "lastname", splitNameColumn |-> FALSE,
              groupsColumn |-> "Group c"]
        ELSE defaultMapping

(***************************************************************************)
(* CSVDuplicateDetector: the state and its handlers.  A handler is a       *)
(* function from the state before to the state after; the code between two *)
(* suspension points of an async function is one handler.                  *)
(***************************************************************************)
EmptyIndex == [k \in {} |-> <<>>]

ZeroSummary ==
    [phase1DuplicatesCount |-> 0, phase2DuplicatesCount |-> 0,
     phase3FilteredCount |-> 0, initialUniqueBasisEmails |-> 0,
     phase1FilesProcessed |-> 0, phase2FilesProcessed |-> 0]

NoCall == [op |-> "none", result |-> "none"]

P3Idle == [pc |-> "idle", file |-> NoFile, domains |-> {}]

\* the detector and its pool as one value
State ==
    [workers |-> workers, queue |-> queue, reqState |-> reqState,
     poolTerminated |-> poolTerminated, bitArray |-> bitArray,
     emailIndex |-> emailIndex, allDuplicates |-> allDuplicates,
     isProcessing |-> isProcessing, isPaused |-> isPaused,
     currentPhase |-> currentPhase, originalBasisFile |-> originalBasisFile,
     currentColumnMapping |-> currentColumnMapping, startTime |-> startTime,
     rowsProcessed |-> rowsProcessed, summary |-> summary,
     filteredDomains |-> filteredDomains,
     phase3LogMessages |-> phase3LogMessages,
     finalFilteredBasisData |-> finalFilteredBasisData,
     published |-> published, lastCall |-> lastCall, runs |-> runs, p3 |-> p3]

\* the detector and its pool become the value T
Becomes(T) ==
  LET S == T
  IN
    /\ workers' = S.workers
    /\ queue' = S.queue
    /\ reqState' = S.reqState
    /\ poolTerminated' = S.poolTerminated
    /\ bitArray' = S.bitArray
    /\ emailIndex' = S.emailIndex
    /\ allDuplicates' = S.allDuplicates
    /\ isProcessing' = S.isProcessing
    /\ isPaused' = S.isPaused
    /\ currentPhase' = S.currentPhase
    /\ originalBasisFile' = S.originalBasisFile
    /\ currentColumnMapping' = S.currentColumnMapping
    /\ startTime' = S.startTime
    /\ rowsProcessed' = S.rowsProcessed
    /\ summary' = S.summary
    /\ filteredDomains' = S.filteredDomains
    /\ phase3LogMessages' = S.phase3LogMessages
    /\ finalFilteredBasisData' = S.finalFilteredBasisData
    /\ published' = S.published
    /\ lastCall' = S.lastCall
    /\ runs' = S.runs
    /\ p3' = S.p3
    /\ UNCHANGED <<nextReq, bfAdded, bfLast, wk, stream>>

\* the file a run is streaming, its name and its effective column mapping
RunFile(run) ==
    IF run.pc \in {"basis_pull", "basis_paused", "basis_acquire", "basis_work"}
    THEN run.basisFile
    ELSE run.files[run.i]

RunMapping(run) ==
    getEffectiveColumnMapping(RunFile(run).name, run.mapping)

\* processFiles, lines 240-250: the phase counters are set and the run ends
FinishRun(S, r) ==
    LET found == Len(S.allDuplicates) - S.runs[r].before
        n == Len(S.runs[r].files)
        sm == IF S.currentPhase = "phase1"
              THEN [S.summary EXCEPT !.phase1DuplicatesCount = found,
                                     !.phase1FilesProcessed = n]
              ELSE IF S.currentPhase = "phase2"
              THEN [S.summary EXCEPT !.phase2DuplicatesCount = found,
                                     !.phase2FilesProcessed = n]
              ELSE S.summary
    IN  [S EXCEPT !.summary = sm, !.isProcessing = FALSE, !.runs[r].pc = "done"]

\* processFiles, lines 252-259: the catch block
FailRun(S, r) ==
    [S EXCEPT !.isProcessing = FALSE, !.runs[r].pc = "failed"]

\* processFiles, lines 225-231: the head of the loop over the comparison
\* files, for the file at position runs[r].i
ComparisonLoop(S, r) ==
    IF S.runs[r].i > Len(S.runs[r].files) \/ ~S.isProcessing
    THEN FinishRun(S, r)
    ELSE [S EXCEPT !.runs[r].pc = "cmp_pull", !.runs[r].pos = 0]

\* processFiles, lines 217-225: after processBasisFile returned
AfterBasis(S, r) ==
    ComparisonLoop(
        [S EXCEPT !.summary.initialUniqueBasisEmails = Cardinality(DOMAIN S.emailIndex),
                  !.runs[r].before = Len(S.allDuplicates),
                  !.runs[r].i = 1], r)

\* processFiles, line 222 on: a run that does not ingest the basis
SkipBasis(S, r) ==
    ComparisonLoop(
        [S EXCEPT !.runs[r].before = Len(S.allDuplicates), !.runs[r].i = 1], r)

Release_keepsUnit(S, r) ==
    S

\* releaseWorker in the finally block of a batch
Release(S, r) ==
    LET u == S.reqState[r].unit
        rel == releaseWorker(S.workers, S.queue, u)
    IN  [S EXCEPT !.workers = rel.workers, !.queue = rel.queue,
                  !.reqState = AfterRelease([S.reqState EXCEPT ![r].st = "released"],
                                            rel, u)]

\* processComparisonFile, lines 348-387: the results of a batch are appended
\* and the list is published when it is not empty
AfterFind(S, r, found) ==
    LET all == S.allDuplicates \o found
    IN  [S EXCEPT !.allDuplicates = all,
                  !.rowsProcessed = @ + Len(S.runs[r].chunk),
                  !.published = IF Len(all) > 0
                                THEN [emitted |-> TRUE, list |-> all] ELSE @,
                  !.runs[r].pc = "cmp_pull",
                  !.runs[r].chunk = <<>>,
                  !.runs[r].subset = EmptyIndex]

\* buildIndexFromChunk / findDuplicatesInChunk after getWorker resolved: the
\* batch is handed to the unit.  The matcher gets the index subset of the keys
\* the filter lets through; with no such key the batch is done at once.
Dispatch(S, r) ==
    IF S.runs[r].pc \in {"basis_pull", "basis_paused", "basis_acquire"}
    THEN [S EXCEPT !.runs[r].pc = "basis_work"]
    ELSE LET run == S.runs[r]
             cands == CandidateEmails(run.chunk, RunMapping(run), S.bitArray)
         IN  IF cands = {}
             THEN AfterFind(Release(S, r), r, <<>>)
             ELSE [S EXCEPT !.runs[r].pc = "cmp_work",
                            !.runs[r].subset = getIndexSubset(S.emailIndex, cands)]

\* await this.workerPool.getWorker()
Acquire(S, r) ==
    LET g == getWorker(S.workers, S.queue, r)
        S1 == [S EXCEPT !.workers = g.workers, !.queue = g.queue,
                        !.reqState = (r :> g.state) @@ S.reqState]
    IN  IF g.state.st = "granted"
        THEN Dispatch(S1, r)
        ELSE [S1 EXCEPT !.runs[r].pc =
                 IF S.runs[r].pc \in {"basis_pull", "basis_paused"}
                 THEN "basis_acquire" ELSE "cmp_acquire"]

\* the body of the per-batch loop from waitIfPaused on, for a batch the
\* stream has yielded
BeginBatch(S, r, chunk) ==
    LET S1 == [S EXCEPT !.runs[r].chunk = chunk,
                        !.runs[r].pos = @ + Len(chunk)]
    IN  IF S.isPaused
        THEN [S1 EXCEPT !.runs[r].pc =
                 IF S.runs[r].pc = "basis_pull" THEN "basis_paused" ELSE "cmp_paused"]
        ELSE Acquire(S1, r)

\* processComparisonFile returned: gcHint after every third file, then the
\* next file
AfterComparisonFile(S, r) ==
    IF (S.runs[r].i - 1) % 3 = 0
    THEN [S EXCEPT !.runs[r].pc = "gc"]
    ELSE ComparisonLoop([S EXCEPT !.runs[r].i = @ + 1], r)

ResetForPhase1_keepResults(S) ==
    [S EXCEPT !.emailIndex = EmptyIndex,
              !.bitArray = {},
              !.summary = ZeroSummary]

ResetForPhase1_keepPrefilter(S) ==
    [S EXCEPT !.allDuplicates = <<>>,
              !.emailIndex = EmptyIndex,
              !.summary = ZeroSummary]

\* processFiles, lines 194-209: the reset at the start of a Phase-1 run
ResetForPhase1(S) ==
    [S EXCEPT !.allDuplicates = <<>>,
              !.emailIndex = EmptyIndex,
              !.bitArray = {},
              !.summary = ZeroSummary]

\* a run at its start; phase is the value of currentPhase that the tests of
\* lines 195 and 212 read; resumed is history: resume() was called since the
\* run began to wait in waitIfPaused
NewRun(basisFile, comparisonFiles, mapping, phase) ==
    [pc |-> "basis_pull", basisFile |-> basisFile, files |-> comparisonFiles,
     mapping |-> mapping, i |-> 1, pos |-> 0, chunk |-> <<>>,
     subset |-> EmptyIndex, before |-> 0, phase |-> phase, resumed |-> FALSE]

processFiles_noGuard(S, basisFile, comparisonFiles, mapping) ==
    LET r == Len(S.runs) + 1
        S1 == [S EXCEPT !.isProcessing = TRUE, !.startTime = r,
                        !.rowsProcessed = 0,
                        !.originalBasisFile = basisFile,
                        !.currentColumnMapping = mapping,
                        !.lastCall = [op |-> "processFiles", result |-> "started"],
                        !.runs = Append(@, NewRun(basisFile, comparisonFiles, mapping,
                                                     S.currentPhase))]
    IN  IF S.currentPhase = "phase1" THEN ResetForPhase1(S1) ELSE SkipBasis(S1, r)

\* processFiles up to its first suspension point
processFiles(S, basisFile, comparisonFiles, mapping) ==
    IF S.isProcessing
    THEN [S EXCEPT !.lastCall = [op |-> "processFiles", result |-> "rejected"]]
    ELSE LET r == Len(S.runs) + 1
             S1 == [S EXCEPT !.isProcessing = TRUE, !.startTime = r,
                             !.rowsProcessed = 0,
                             !.originalBasisFile = basisFile,
                             !.currentColumnMapping = mapping,
                             !.lastCall = [op |-> "processFiles", result |-> "started"],
                             !.runs = Append(@, NewRun(basisFile, comparisonFiles, mapping,
                                                     S.currentPhase))]
         IN  IF S.currentPhase = "phase1" THEN ResetForPhase1(S1) ELSE SkipBasis(S1, r)

\* stop()
stop(S) ==
    [S EXCEPT !.isProcessing = FALSE, !.isPaused = FALSE]

\* cleanup(): stop, shut the pool down, clear the index
cleanup(S) ==
    LET S1 == stop(S)
        t  == terminate(S1.workers, S1.queue)
    IN  [S1 EXCEPT !.workers = t.workers, !.queue = t.queue,
                   !.reqState = [q \in DOMAIN S1.reqState |->
                                    IF q \in t.rejected
                                    THEN [S1.reqState[q] EXCEPT !.st = "rejected"]
                                    ELSE S1.reqState[q]],
                   !.poolTerminated = TRUE,
                   !.emailIndex = EmptyIndex]

(***************************************************************************)
(* Phase 3                                                                 *)
(***************************************************************************)
\* applyPhase3Filtering, line 622
NormalizeDomains(domainsToFilter) ==
    {trim(toLowerCase(domainsToFilter[i])) : i \in 1..Len(domainsToFilter)}

\* filterModifiedBasisFile, lines 652-663: whether the row's key is cleared
RowIsCleared(row, emailColumn, normalizedDomains) ==
    LET email == normalizeEmail(Field(row, emailColumn))
        emailDomain == SplitDomain(email)
    IN  /\ email # <<>>
        /\ emailDomain # <<>>
        /\ toLowerCase(emailDomain) \in normalizedDomains

ClearFilteredEmails_dropsRows(rows, emailColumn, normalizedDomains) ==
    SelectSeq(rows, LAMBDA row : ~RowIsCleared(row, emailColumn, normalizedDomains))

\* filterModifiedBasisFile, lines 650-689: the rows with the keys of the
\* filtered domains cleared (every row is kept)
ClearFilteredEmails(rows, emailColumn, normalizedDomains) ==
    [i \in 1..Len(rows) |->
        IF RowIsCleared(rows[i], emailColumn, normalizedDomains)
        THEN [rows[i] EXCEPT ![emailColumn] = <<>>]
        ELSE rows[i]]

\* filterModifiedBasisFile, lines 704-761: the index rebuilt from the rows
\* whose key is not empty; rowIndex is the 0-based position in the file
RebuildIndex(rows, m, sourceFile) ==
    LET key(i) == normalizeEmail(Field(rows[i], m.emailColumn))
        keys == {k \in {key(i) : i \in 1..Len(rows)} : k # <<>> /\ trim(k) # <<>>}
    IN  [k \in keys |->
            LET idx == SelectSeq(Positions(rows), LAMBDA i : key(i) = k)
            IN  [j \in 1..Len(idx) |->
                    IndexRecord(rows[idx[j]], idx[j], sourceFile, m, k)]]

RebuildBloom_skip(bits, index) ==
    bits

\* filterModifiedBasisFile, line 759: the filter after the rebuild (it is
\* not cleared before the keys are added)
RebuildBloom(bits, index) ==
    BloomAddAll(bits, DOMAIN index)

PruneDuplicates_keepAll(duplicates, index) ==
    duplicates

\* filterModifiedBasisFile, lines 769-778: only the results whose key is in
\* the rebuilt index are kept
PruneDuplicates(duplicates, index) ==
    SelectSeq(duplicates, LAMBDA d : d.email \in DOMAIN index)

\* applyPhase3Filtering and filterModifiedBasisFile up to the await of the
\* parse of the stored basis file
applyPhase3Filtering(S, domainsToFilter) ==
    IF S.originalBasisFile = NoFile
    THEN [S EXCEPT !.filteredDomains = domainsToFilter,
                   !.phase3LogMessages = <<"step 1", "error">>]
    ELSE [S EXCEPT !.filteredDomains = domainsToFilter,
                   !.phase3LogMessages = <<"step 1">>,
                   !.p3 = [pc |-> "parsing", file |-> S.originalBasisFile,
                           domains |-> NormalizeDomains(domainsToFilter)]]

\* filterModifiedBasisFile after the parse: clear, rebuild, prune, publish
filterModifiedBasisFile(S) ==
    IF ~S.p3.file.ok
    THEN [S EXCEPT !.phase3LogMessages = Append(@, "error"), !.p3 = P3Idle]
    ELSE LET m == S.currentColumnMapping
             data == ClearFilteredEmails(S.p3.file.rows, m.emailColumn, S.p3.domains)
             cleared == Cardinality({i \in 1..Len(data) :
                            RowIsCleared(S.p3.file.rows[i], m.emailColumn, S.p3.domains)})
             index == RebuildIndex(data, m, S.originalBasisFile.name)
             kept == PruneDuplicates(S.allDuplicates, index)
         IN  [S EXCEPT !.finalFilteredBasisData = data,
                       !.emailIndex = index,
                       !.bitArray = RebuildBloom(S.bitArray, index),
                       !.allDuplicates = kept,
                       !.summary.phase3FilteredCount = cleared,
                       !.published = [emitted |-> TRUE, list |-> kept],
                       !.phase3LogMessages = Append(@, "complete"),
                       !.p3 = P3Idle]

(***************************************************************************)
(* The exports: what each call answers and what it hands to saveAs         *)
(***************************************************************************)
\* the call is rejected before anything is produced
ExportRejected == [result |-> "rejected", saved |-> <<>>]

\* exportModifiedBasisFile, lines 829-854: the rows of the stored basis file
\* are parsed again and saved; a file that does not parse makes the call fail
exportModifiedBasisFile(S) ==
    IF S.originalBasisFile = NoFile \/ S.currentColumnMapping = NoMapping
    THEN ExportRejected
    ELSE IF ~S.originalBasisFile.ok
    THEN [result |-> "failed", saved |-> <<>>]
    ELSE [result |-> "saved", saved |-> S.originalBasisFile.rows]

\* exportFinalModifiedBasisFile, lines 856-881
exportFinalModifiedBasisFile(S) ==
    IF Len(S.finalFilteredBasisData) = 0
    THEN ExportRejected
    ELSE [result |-> "saved", saved |-> S.finalFilteredBasisData]

\* exportPhase3Logs, lines 975-1006
exportPhase3Logs(S) ==
    IF Len(S.phase3LogMessages) = 0
    THEN ExportRejected
    ELSE [result |-> "saved", saved |-> S.phase3LogMessages]

(***************************************************************************)
(* CSVDuplicateDetector: the steps                                         *)
(***************************************************************************)
Min(a, b) == IF a < b THEN a ELSE b

\* what the next pull of a stream can give when pos rows of the file have
\* been yielded.  A file that parses gives its next batch, or the end.  The
\* rows of a file that does not parse are the rows parsed before the failure:
\* a full batch among them may be yielded before the failure is seen; with
\* fewer rows left in the queue the failure is thrown; with no row left the
\* loop condition of streamCSV is false and the sequence ends
PullOutcomes(file, pos, size) ==
    LET n == Len(file.rows)
        next == [kind |-> "chunk", chunk |-> SubSeq(file.rows, pos + 1, Min(pos + size, n))]
        end == [kind |-> "end", chunk |-> <<>>]
        error == [kind |-> "error", chunk |-> <<>>]
    IN  IF file.ok
        THEN IF pos = n THEN {end} ELSE {next}
        ELSE IF n - pos >= size THEN {next, error}
        ELSE IF n - pos > 0 THEN {error}
        ELSE {end}

InBasis(run) == run.pc \in {"basis_pull", "basis_paused", "basis_acquire", "basis_work"}

ChunkSize(run) == IF InBasis(run) THEN BasisChunkSize ELSE ComparisonChunkSize

\* the source's stream ended, or the batch loop was left by break
StreamDone(S, r) ==
    IF InBasis(S.runs[r]) THEN AfterBasis(S, r) ELSE AfterComparisonFile(S, r)

ProcessFilesCall ==
    \E basisFile \in BasisFiles, comparisonFiles \in ComparisonLists, mapping \in Mappings :
        /\ isProcessing \/ Len(runs) < MaxRuns
        /\ Becomes(processFiles(State, basisFile, comparisonFiles, mapping))

\* a caller that awaits a run before it starts the next one
ProcessFilesAfter ==
    \E basisFile \in BasisFiles, comparisonFiles \in ComparisonLists, mapping \in Mappings :
        /\ Len(runs) < MaxSessionRuns
        /\ \A r \in 1..Len(runs) : runs[r].pc \in {"done", "failed"}
        /\ p3.pc = "idle"
        /\ Becomes(processFiles(State, basisFile, comparisonFiles, mapping))

\* a caller that starts a run whenever the guard of line 176 lets it
ProcessFilesAgain ==
    \E basisFile \in BasisFiles, comparisonFiles \in ComparisonLists, mapping \in Mappings :
        /\ Len(runs) < MaxSessionRuns
        /\ Becomes(processFiles(State, basisFile, comparisonFiles, mapping))

\* the stream of the run's current source answers the pull of the for-await loop
StreamPull(r) ==
    /\ runs[r].pc \in {"basis_pull", "cmp_pull"}
    /\ \E o \in PullOutcomes(RunFile(runs[r]), runs[r].pos, ChunkSize(runs[r])) :
        Becomes(IF o.kind = "error" THEN FailRun(State, r)
                ELSE IF o.kind = "end" \/ ~isProcessing THEN StreamDone(State, r)
                ELSE BeginBatch(State, r, o.chunk))

\* waitIfPaused finds the run resumed
PauseCheck(r) ==
    /\ runs[r].pc \in {"basis_paused", "cmp_paused"}
    /\ ~isPaused
    /\ Becomes(Acquire([State EXCEPT !.runs[r].resumed = FALSE], r))

\* the queued getWorker() of the run is settled
Granted(r) ==
    /\ runs[r].pc \in {"basis_acquire", "cmp_acquire"}
    /\ reqState[r].st \in {"granted", "rejected"}
    /\ Becomes(IF reqState[r].st = "granted" THEN Dispatch(State, r)
               ELSE FailRun(State, r))

\* the unit returns the result of the batch; it is merged and the unit released
WorkerReturn(r) ==
    /\ runs[r].pc \in {"basis_work", "cmp_work"}
    /\ reqState[r].unit \in 1..Len(workers)
    /\ LET run == runs[r]
           name == RunFile(run).name
           m == RunMapping(run)
       IN  IF run.pc = "basis_work"
           THEN LET result == buildEmailIndex(run.chunk, name, m)
                    S1 == [State EXCEPT
                              !.emailIndex = MergeIndex(@, result),
                              !.bitArray = BloomAddAll(@, DOMAIN result)]
                IN  Becomes([Release(S1, r) EXCEPT
                                !.rowsProcessed = @ + Len(run.chunk),
                                !.runs[r].pc = "basis_pull",
                                !.runs[r].chunk = <<>>])
           ELSE Becomes(AfterFind(Release(State, r), r,
                                  findDuplicates(run.chunk, run.subset, name, m)))

WorkerFail_noRelease(r) ==
    /\ runs[r].pc \in {"basis_work", "cmp_work"}
    /\ reqState[r].unit \in 1..Len(workers)
    /\ Becomes(FailRun(State, r))

\* the call to the unit fails: the unit is released and the run aborts
WorkerFail(r) ==
    /\ runs[r].pc \in {"basis_work", "cmp_work"}
    /\ reqState[r].unit \in 1..Len(workers)
    /\ Becomes(FailRun(Release(State, r), r))

\* the timer of gcHint fires
GcDone(r) ==
    /\ runs[r].pc = "gc"
    /\ Becomes(ComparisonLoop([State EXCEPT !.runs[r].i = @ + 1], r))

Pause ==
    /\ ~isPaused
    /\ Becomes([State EXCEPT !.isPaused = TRUE])

\* resume(); the call is noted in the runs that wait in waitIfPaused
Resume ==
    /\ isPaused
    /\ Becomes([State EXCEPT
            !.isPaused = FALSE,
            !.runs = [r \in DOMAIN runs |->
                        IF runs[r].pc \in {"basis_paused", "cmp_paused"}
                        THEN [runs[r] EXCEPT !.resumed = TRUE]
                        ELSE runs[r]]])

Stop ==
    /\ isProcessing \/ isPaused
    /\ Becomes(stop(State))

SetPhase(phase) ==
    /\ phase # currentPhase
    /\ Becomes([State EXCEPT !.currentPhase = phase])

Cleanup ==
    Becomes(cleanup(State))

ApplyPhase3Filtering ==
    \E domainsToFilter \in DomainLists :
        /\ p3.pc = "idle"
        /\ Becomes(applyPhase3Filtering(State, domainsToFilter))

\* a caller that applies the Phase-3 filtering when no run is in flight
ApplyPhase3FilteringAfter ==
    \E domainsToFilter \in DomainLists :
        /\ p3.pc = "idle"
        /\ \A r \in 1..Len(runs) : runs[r].pc \in {"done", "failed"}
        /\ Becomes(applyPhase3Filtering(State, domainsToFilter))

Phase3Parsed ==
    /\ p3.pc = "parsing"
    /\ Becomes(filterModifiedBasisFile(State))

(***************************************************************************)
(* The csv worker: calls of its functions                                  *)
(***************************************************************************)
\* no worker function has been called
NoWorkerCall == [op |-> "none"]

\* the names the worker functions are called with: every string of at most
\* MaxNameLen characters over a small alphabet with both cases and the
\* space, and the names of the examples of the specification
Names ==
    StringsUpTo({Chr.a, Chr.A, Chr.b, Chr.sp}, MaxNameLen)
        \cup {<<Chr.D, Chr.o, Chr.e>>, <<Chr.D, Chr.o, Chr.e, Chr.y>>}

\* the inputs of the matcher: the names of rows and of candidates, the key
\* fields of rows, the sources, and index records under the key "a@x"
NameStr ==
    [Doe |-> <<Chr.D, Chr.o, Chr.e>>, doe_sp |-> <<Chr.d, Chr.o, Chr.e, Chr.sp>>,
     Doey |-> <<Chr.D, Chr.o, Chr.e, Chr.y>>, Dab |-> <<Chr.D, Chr.a, Chr.b>>]

RowNames == {<<>>, NameStr.Doe, NameStr.doe_sp, NameStr.Doey, NameStr.Dab}

CandidateNames == {<<>>, NameStr.Doe, NameStr.Dab}

RowEmails == {Str.A_X_sp, Str.b_y, Str.empty}

Sources == {"basis.csv", "list1.csv"}

Candidates ==
    [email : {Str.a_x}, firstName : CandidateNames, lastName : CandidateNames,
     sourceFile : Sources, rowIndex : {0}]

CandidateLists ==
    {<<>>} \cup {<<c>> : c \in Candidates}
           \cup {<<c1, c2>> : c1 \in Candidates, c2 \in Candidates}

MatchRows ==
    {Row(email, first, last) : email \in RowEmails, first \in RowNames, last \in RowNames}

\* a chunk of one row, or of that row after a row that matches every
\* candidate from another source
MatchChunks ==
    {<<row>> : row \in MatchRows}
        \cup {<<Row(Str.a_x, NameStr.Doe, NameStr.Doe), row>> : row \in MatchRows}

WkFindDuplicates ==
    /\ wk = NoWorkerCall
    /\ \E chunk \in MatchChunks, candidates \in CandidateLists :
        LET index == IF candidates = <<>> THEN EmptyIndex
                     ELSE (Str.a_x :> candidates)
        IN  wk' = [op |-> "findDuplicates", chunk |-> chunk, emailIndex |-> index,
                   sourceFile |-> "list1.csv", columnMapping |-> DefaultMapping,
                   result |-> findDuplicates(chunk, index, "list1.csv",
                                             DefaultMapping)]
    /\ UNCHANGED <<poolVars, bloomVars, ctlVars, streamVars>>

\* the inputs of the index builder: rows with a combined Name column next to
\* separate name columns, with a key, an empty or blank key, or no key column
FullNames ==
    StringsUpTo({Chr.a, Chr.B, Chr.sp}, MaxNameLen)
        \cup {<<Chr.a, Chr.sp, Chr.B, Chr.sp, Chr.a>>,
              <<Chr.sp, Chr.a, Chr.sp, Chr.sp, Chr.B, Chr.sp>>}

BuildRows ==
    {[email |-> email, Name |-> name, firstname |-> Str.Jo, lastname |-> Str.Do] :
        email \in {Str.A_X_sp, Str.empty, <<Chr.sp>>}, name \in FullNames}
    \cup {[Name |-> name, firstname |-> Str.Jo, lastname |-> Str.Do] : name \in FullNames}

BuildChunks ==
    {<<row>> : row \in BuildRows}
        \cup {<<[email |-> Str.a_x, Name |-> <<Chr.a, Chr.sp, Chr.B>>,
                 firstname |-> Str.Jo, lastname |-> Str.Do], row>> : row \in BuildRows}

\* the mapping of a file with a combined Name column, the default mapping,
\* and a mapping that asks for a split but names two columns
BuildMappings ==
    {getEffectiveColumnMapping("ccm_contacts.csv", DefaultMapping),
     DefaultMapping,
     [DefaultMapping EXCEPT !.splitNameColumn = TRUE]}

WkBuildEmailIndex ==
    /\ wk = NoWorkerCall
    /\ \E chunk \in BuildChunks, columnMapping \in BuildMappings :
        wk' = [op |-> "buildEmailIndex", chunk |-> chunk, sourceFile |-> "basis.csv",
               columnMapping |-> columnMapping,
               result |-> buildEmailIndex(chunk, "basis.csv", columnMapping)]
    /\ UNCHANGED <<poolVars, bloomVars, ctlVars, streamVars>>

\* The worker functions keep no state between calls: each call is taken from
\* the state in which none has been made.
WkCalculateSimilarity ==
    /\ wk = NoWorkerCall
    /\ \E str1 \in Names, str2 \in Names :
        wk' = [op |-> "calculateSimilarity", str1 |-> str1, str2 |-> str2,
               result |-> calculateSimilarity(str1, str2)]
    /\ UNCHANGED <<poolVars, bloomVars, ctlVars, streamVars>>

(***************************************************************************)
(* streamCSV: the batch sequence of one source, with its parser            *)
(***************************************************************************)
\* no batch sequence has been created
NoStream == [pc |-> "none"]

\* the sources a batch sequence is created for: the first rows of the basis
\* file (repeated when more are asked for), parsed to the end or up to a
\* parse failure
StreamSources ==
    {[name |-> BasisA.name, ok |-> ok,
      rows |-> [i \in 1..n |-> BasisA.rows[((i - 1) % Len(BasisA.rows)) + 1]]] :
        n \in 0..MaxStreamRows, ok \in BOOLEAN}

\* streamCSV, lines 416-465: the generator object before its first pull
NewStream(file, chunkSize) ==
    [pc |-> "created", file |-> file, chunkSize |-> chunkSize, queue |-> <<>>,
     isParsingComplete |-> FALSE, resolveNextChunk |-> FALSE,
     parseError |-> FALSE, totalRowsParsed |-> 0, parserDone |-> FALSE,
     yielded |-> <<>>]

streamLoop_remainderFirst(s) ==
    IF ~(~s.isParsingComplete \/ Len(s.queue) > 0)
    THEN [s EXCEPT !.pc = "returned"]
    ELSE IF s.parseError
    THEN [s EXCEPT !.pc = "thrown"]
    ELSE IF s.isParsingComplete /\ Len(s.queue) > 0
    THEN [s EXCEPT !.queue = <<>>,
                   !.yielded = Append(@, s.queue),
                   !.pc = "yielded_last"]
    ELSE IF Len(s.queue) >= s.chunkSize
    THEN [s EXCEPT !.queue = SubSeq(@, s.chunkSize + 1, Len(@)),
                   !.yielded = Append(@, SubSeq(s.queue, 1, s.chunkSize)),
                   !.pc = "yielded"]
    ELSE [s EXCEPT !.resolveNextChunk = TRUE, !.pc = "waiting"]

\* streamCSV, lines 467-502: the generator runs from the head of its while
\* loop to its next yield, await, return or throw
streamLoop(s) ==
    IF ~(~s.isParsingComplete \/ Len(s.queue) > 0)
    THEN [s EXCEPT !.pc = "returned"]
    ELSE IF s.parseError
    THEN [s EXCEPT !.pc = "thrown"]
    ELSE IF Len(s.queue) >= s.chunkSize
    THEN [s EXCEPT !.queue = SubSeq(@, s.chunkSize + 1, Len(@)),
                   !.yielded = Append(@, SubSeq(s.queue, 1, s.chunkSize)),
                   !.pc = "yielded"]
    ELSE IF s.isParsingComplete /\ Len(s.queue) > 0
    THEN [s EXCEPT !.queue = <<>>,
                   !.yielded = Append(@, s.queue),
                   !.pc = "yielded_last"]
    ELSE IF s.isParsingComplete /\ Len(s.queue) = 0
    THEN [s EXCEPT !.pc = "returned"]
    ELSE [s EXCEPT !.resolveNextChunk = TRUE, !.pc = "waiting"]

\* lines 437-440, 447-450, 458-461: a waiting generator is resumed
signalNextChunk(s) ==
    IF s.resolveNextChunk
    THEN [s EXCEPT !.resolveNextChunk = FALSE, !.pc = "resumed"]
    ELSE s

\* the chunk callback, lines 426-441
chunkCallback(s, data) ==
    signalNextChunk([s EXCEPT !.queue = @ \o data,
                              !.totalRowsParsed = @ + Len(data)])

\* the complete callback, lines 442-451
completeCallback(s) ==
    signalNextChunk([s EXCEPT !.isParsingComplete = TRUE, !.parserDone = TRUE])

\* the error callback, lines 452-462
errorCallback(s) ==
    signalNextChunk([s EXCEPT !.parseError = TRUE, !.isParsingComplete = TRUE,
                              !.parserDone = TRUE])

\* the parser has been started and has not reported its end
ParserRuns ==
    /\ stream.pc \notin {"none", "created"}
    /\ ~stream.parserDone

StreamCSV ==
    /\ stream = NoStream
    /\ \E file \in StreamSources, chunkSize \in {BasisChunkSize, ComparisonChunkSize} :
        stream' = NewStream(file, chunkSize)
    /\ UNCHANGED <<poolVars, bloomVars, ctlVars, workerVars>>

\* the consumer asks for the next batch: the generator starts (and starts the
\* parser), or goes on after its last yield
ConsumerPull ==
    /\ stream.pc \in {"created", "yielded", "yielded_last"}
    /\ stream' = IF stream.pc = "yielded_last"
                 THEN [stream EXCEPT !.pc = "returned"]
                 ELSE streamLoop(stream)
    /\ UNCHANGED <<poolVars, bloomVars, ctlVars, workerVars>>

\* the generator goes on after the await of line 499
GeneratorResumes ==
    /\ stream.pc = "resumed"
    /\ stream' = streamLoop(stream)
    /\ UNCHANGED <<poolVars, bloomVars, ctlVars, workerVars>>

\* the parser hands over the next rows of the source
ParserChunk ==
    /\ ParserRuns
    /\ \E k \in 1..MaxPush :
        /\ stream.totalRowsParsed + k <= Len(stream.file.rows)
        /\ stream' = chunkCallback(stream,
                        SubSeq(stream.file.rows, stream.totalRowsParsed + 1,
                               stream.totalRowsParsed + k))
    /\ UNCHANGED <<poolVars, bloomVars, ctlVars, workerVars>>

ParserComplete ==
    /\ ParserRuns
    /\ stream.file.ok
    /\ stream.totalRowsParsed = Len(stream.file.rows)
    /\ stream' = completeCallback(stream)
    /\ UNCHANGED <<poolVars, bloomVars, ctlVars, workerVars>>

ParserError ==
    /\ ParserRuns
    /\ ~stream.file.ok
    /\ stream.totalRowsParsed = Len(stream.file.rows)
    /\ stream' = errorCallback(stream)
    /\ UNCHANGED <<poolVars, bloomVars, ctlVars, workerVars>>

(***************************************************************************)
(* Specifications                                                          *)
(***************************************************************************)
InitBloom ==
    /\ bitArray = {}
    /\ bfAdded = {}
    /\ bfLast = NoTest

InitPoolIdle ==
    /\ queue = <<>>
    /\ reqState = <<>>
    /\ nextReq = 1
    /\ poolTerminated = FALSE

\* the detector after its constructor
InitDetector ==
    /\ emailIndex = EmptyIndex
    /\ allDuplicates = <<>>
    /\ isProcessing = FALSE
    /\ isPaused = FALSE
    /\ currentPhase = "phase1"
    /\ originalBasisFile = NoFile
    /\ currentColumnMapping = NoMapping
    /\ startTime = 0
    /\ rowsProcessed = 0
    /\ summary = ZeroSummary
    /\ filteredDomains = <<>>
    /\ phase3LogMessages = <<>>
    /\ finalFilteredBasisData = <<>>
    /\ published = [emitted |-> FALSE, list |-> <<>>]
    /\ lastCall = NoCall
    /\ runs = <<>>
    /\ p3 = P3Idle
    /\ wk = NoWorkerCall
    /\ stream = NoStream

\* The pool on its own, with clients that acquire, release what they hold, and
\* a shutdown; initializeWorkers may have failed to create some of the units.
PoolInit ==
    /\ \E n \in 0..MaxWorkers : workers = Units(n)
    /\ InitPoolIdle
    /\ InitBloom
    /\ InitDetector

PoolNext ==
    \/ PoolAcquire
    \/ PoolRelease
    \/ PoolTerminate

PoolSpec == PoolInit /\ [][PoolNext]_vars

\* The filter on its own: items are added, tested, and the filter cleared.
BloomInit ==
    /\ workers = Units(MaxWorkers)
    /\ InitPoolIdle
    /\ InitBloom
    /\ InitDetector

BloomNext ==
    \/ \E item \in BloomItems : BfAdd(item)
    \/ \E item \in BloomItems : BfTest(item)
    \/ BfClear

BloomSpec == BloomInit /\ [][BloomNext]_vars

\* The detector with its pool and its filter.
Init ==
    /\ workers = Units(MaxWorkers)
    /\ InitPoolIdle
    /\ InitBloom
    /\ InitDetector

Next ==
    \/ ProcessFilesCall
    \/ \E r \in 1..Len(runs) : StreamPull(r)
    \/ \E r \in 1..Len(runs) : PauseCheck(r)
    \/ \E r \in 1..Len(runs) : Granted(r)
    \/ \E r \in 1..Len(runs) : WorkerReturn(r)
    \/ \E r \in 1..Len(runs) : WorkerFail(r)
    \/ \E r \in 1..Len(runs) : GcDone(r)
    \/ Pause
    \/ Resume
    \/ Stop
    \/ \E phase \in Phases : SetPhase(phase)
    \/ Cleanup
    \/ ApplyPhase3Filtering
    \/ Phase3Parsed

Spec == Init /\ [][Next]_vars

\* The functions of the csv worker on their own, called with any inputs.
WorkerNext ==
    \/ WkCalculateSimilarity
    \/ WkFindDuplicates
    \/ WkBuildEmailIndex

WorkerSpec == Init /\ [][WorkerNext]_vars

\* The detector over a session in which the caller starts a run or a Phase-3
\* filtering only when no other is in flight; it may stop a run and change
\* the phase at any time.
SessionNext ==
    \/ ProcessFilesAfter
    \/ \E r \in 1..Len(runs) : StreamPull(r)
    \/ \E r \in 1..Len(runs) : WorkerReturn(r)
    \/ \E r \in 1..Len(runs) : GcDone(r)
    \/ Stop
    \/ \E phase \in Phases : SetPhase(phase)
    \/ ApplyPhase3FilteringAfter
    \/ Phase3Parsed

SessionSpec == Init /\ [][SessionNext]_vars

\* The detector with a caller that stops runs and starts runs at any time.
RestartNext ==
    \/ ProcessFilesAgain
    \/ \E r \in 1..Len(runs) : StreamPull(r)
    \/ \E r \in 1..Len(runs) : WorkerReturn(r)
    \/ \E r \in 1..Len(runs) : GcDone(r)
    \/ Stop

RestartSpec == Init /\ [][RestartNext]_vars

\* The detector with a pool in which initializeWorkers created some, all or
\* none of the units, and a caller that starts, pauses, resumes, stops and
\* cleans up.
FairInit ==
    /\ \E n \in 0..MaxWorkers : workers = Units(n)
    /\ InitPoolIdle
    /\ InitBloom
    /\ InitDetector

FairNext ==
    \/ ProcessFilesCall
    \/ \E r \in 1..Len(runs) : StreamPull(r)
    \/ \E r \in 1..Len(runs) : PauseCheck(r)
    \/ \E r \in 1..Len(runs) : Granted(r)
    \/ \E r \in 1..Len(runs) : WorkerReturn(r)
    \/ \E r \in 1..Len(runs) : WorkerFail(r)
    \/ \E r \in 1..Len(runs) : GcDone(r)
    \/ Pause
    \/ Resume
    \/ Stop
    \/ Cleanup

\* a step of run r other than the end of its wait in pause
RunStep(r) ==
    /\ r <= Len(runs)
    /\ \/ StreamPull(r)
       \/ Granted(r)
       \/ WorkerReturn(r)
       \/ WorkerFail(r)
       \/ GcDone(r)

\* RunStep(r) is enabled: the guards of its five actions, each of which
\* changes the run when it is taken
RunCanStep(r) ==
    /\ r <= Len(runs)
    /\ \/ runs[r].pc \in {"basis_pull", "cmp_pull", "gc"}
       \/ /\ runs[r].pc \in {"basis_acquire", "cmp_acquire"}
          /\ reqState[r].st \in {"granted", "rejected"}
       \/ /\ runs[r].pc \in {"basis_work", "cmp_work"}
          /\ reqState[r].unit \in 1..Len(workers)

\* PauseCheck(r) is enabled
PauseOver(r) ==
    /\ r <= Len(runs)
    /\ runs[r].pc \in {"basis_paused", "cmp_paused"}
    /\ ~isPaused

\* The parser answers every pull, every call to a live unit returns or fails
\* and the timers fire: weak fairness of RunStep(r).  The poll of
\* waitIfPaused sees a pause that has ended: strong fairness of PauseCheck(r).
\* Both are written out with the enabling conditions above.  A pause is
\* followed by resume() or stop().
FairSpec ==
    /\ FairInit /\ [][FairNext]_vars
    /\ \A r \in 1..MaxRuns :
            []<>(~RunCanStep(r)) \/ []<><<RunStep(r)>>_vars
    /\ \A r \in 1..MaxRuns :
            <>[](~PauseOver(r)) \/ []<><<r <= Len(runs) /\ PauseCheck(r)>>_vars
    /\ WF_vars(isPaused /\ (Resume \/ Stop))

\* A batch sequence on its own: the parser's callbacks and the consumer's
\* pulls in every order.
StreamNext ==
    \/ StreamCSV
    \/ ConsumerPull
    \/ GeneratorResumes
    \/ ParserChunk
    \/ ParserComplete
    \/ ParserError

StreamSpec == Init /\ [][StreamNext]_vars

\* The same with a parser that goes on to its end and a consumer that keeps
\* pulling.
FairStreamSpec == StreamSpec /\ WF_vars(StreamNext)

(***************************************************************************)
(* Claims                                                                  *)
(***************************************************************************)
\* the domain of a key: the text after its last '@' ('' when it has none)
KeyDomain(k) ==
    LET ats == {i \in 1..Len(k) : k[i] = Chr.at}
    IN  IF ats = {} THEN <<>>
        ELSE SubSeq(k, (CHOOSE i \in ats : \A j \in ats : i >= j) + 1, Len(k))

\* a step in which a Phase-3 filtering completes
Phase3Completes ==
    /\ p3.pc = "parsing"
    /\ p3'.pc = "idle"
    /\ p3.file.ok

ResultKeys(duplicates) ==
    {duplicates[i].email : i \in 1..Len(duplicates)}

Holders(rs) ==
    {r \in DOMAIN rs : rs[r].st = "granted"}

NewlyGranted(r) ==
    /\ reqState'[r].st = "granted"
    /\ (r \notin DOMAIN reqState \/ reqState[r].st # "granted")

\* C4: with no clear() in between, test(x) is true for every item x that was
\* added, whatever else was added before or after it; a test call on an added
\* item returns true.
C4_NoFalseNegatives ==
    /\ \A x \in bfAdded : BloomTest(bitArray, x)
    /\ (bfLast.tested /\ bfLast.item \in bfAdded) => bfLast.result

C4_Witness ==
    /\ bfLast.tested
    /\ bfLast.item \in bfAdded
    /\ bfLast.result
    /\ Cardinality(bfAdded) >= 2

\* C5: getWorker() is granted a unit at once exactly when one is idle, and
\* otherwise waits; whenever a request is granted, no request that arrived
\* before it is still waiting (waiters are served in arrival order).
C5_FifoGrant ==
    [][/\ \A r \in DOMAIN reqState' :
            NewlyGranted(r) =>
                \A e \in DOMAIN reqState' : e < r => reqState'[e].st # "waiting"
       /\ \A r \in (DOMAIN reqState') \ (DOMAIN reqState) :
            IF IdleUnits(workers) # {}
            THEN /\ reqState'[r].st = "granted"
                 /\ reqState'[r].unit \in IdleUnits(workers)
            ELSE /\ reqState'[r].st = "waiting"
                 /\ queue' = Append(queue, r)]_vars

C5_Witness ==
    \E r1, r2 \in DOMAIN reqState :
        /\ r1 < r2
        /\ reqState[r1].queued /\ reqState[r1].st = "released"
        /\ reqState[r2].queued /\ reqState[r2].st = "granted"
        /\ queue # <<>>

\* C6: a release with a non-empty wait queue hands the unit to the oldest
\* waiter and leaves it busy; after every pool operation a non-empty wait
\* queue implies that no unit is idle.
C6_DirectHandoff ==
    [][/\ queue' # <<>> => IdleUnits(workers') = {}
       /\ \A req \in DOMAIN reqState :
            (/\ reqState[req].st = "granted"
             /\ reqState'[req].st = "released"
             /\ reqState[req].unit \in 1..Len(workers)
             /\ queue # <<>>)
            => /\ reqState'[Head(queue)].st = "granted"
               /\ reqState'[Head(queue)].unit = reqState[req].unit
               /\ workers'[reqState[req].unit].busy
               /\ queue' = Tail(queue)]_vars

C6_Witness ==
    /\ queue # <<>>
    /\ \E r \in DOMAIN reqState : reqState[r].queued /\ reqState[r].st = "granted"

\* C7: terminate() rejects every request that is in the wait queue and leaves
\* the pool with no units and an empty wait queue.
C7_TerminateRejectsQueued ==
    [][(~poolTerminated /\ poolTerminated')
         => /\ workers' = <<>>
            /\ queue' = <<>>
            /\ \A i \in 1..Len(queue) : reqState'[queue[i]].st = "rejected"]_vars

C7_Witness ==
    /\ poolTerminated
    /\ Cardinality({r \in DOMAIN reqState : reqState[r].st = "rejected"}) >= 2

\* C8: a getWorker() call made after terminate() is rejected: it neither
\* returns a unit nor stays pending.
C8_NoPendingAfterShutdown ==
    poolTerminated =>
        \A r \in DOMAIN reqState : reqState[r].st \notin {"waiting"}

\* C9: the number of busy units is between 0 and the number of units, so
\* getUtilization() is within [0,1], and 0 for a pool with no units; the busy
\* units are exactly the units of the outstanding holders, and no unit has
\* two outstanding holders.
C9_UtilizationAndHolders ==
    LET u == getUtilization(workers)
    IN  /\ u.den > 0 /\ 0 <= u.num /\ u.num <= u.den
        /\ Len(workers) = 0 => u.num = 0
        /\ \A r1, r2 \in Holders(reqState) :
               r1 # r2 => reqState[r1].unit # reqState[r2].unit
        /\ ~poolTerminated =>
               {i \in 1..Len(workers) : workers[i].busy}
                   = {reqState[r].unit : r \in Holders(reqState)}

C9_Witness ==
    /\ Len(workers) >= 2
    /\ BusyCount(workers) = Len(workers)
    /\ \E r \in DOMAIN reqState : reqState[r].st = "released"
    /\ queue # <<>>

\* C1 as stated: when a Phase-3 filtering with domain list D completes, no key
\* of the Index and no result of the result list has a domain that, lowercased
\* and trimmed, equals a lowercased and trimmed member of D.
C1_NoFilteredDomainLeft ==
    [][Phase3Completes =>
        \A k \in (DOMAIN emailIndex') \cup ResultKeys(allDuplicates') :
            trim(toLowerCase(KeyDomain(k))) \notin NormalizeDomains(filteredDomains')]_vars

\* C1 as amended: when a Phase-3 filtering with domain list D completes, no key
\* of the Index and no result of the result list has a non-empty domain part
\* (the text between its first '@' and the next '@' or the end, taken as it
\* is, untrimmed) that equals a lowercased and trimmed member of D.
C1_NoFilteredDomainLeft_Amended ==
    [][Phase3Completes =>
        \A k \in (DOMAIN emailIndex') \cup ResultKeys(allDuplicates') :
            \/ SplitDomain(k) = <<>>
            \/ SplitDomain(k) \notin NormalizeDomains(filteredDomains')]_vars

\* a filtering has completed that cleared keys, left other keys in the Index
\* and removed results of a finished run
C1_Witness ==
    /\ p3.pc = "idle"
    /\ finalFilteredBasisData # <<>>
    /\ summary.phase3FilteredCount > 0
    /\ emailIndex # EmptyIndex
    /\ Len(runs) = 1 /\ runs[1].pc = "done"
    /\ Len(allDuplicates) > 0
    /\ Len(allDuplicates) < summary.phase1DuplicatesCount

\* C2: after any sequence of runs, stop() calls and Phase-3 filterings (the
\* detector not having been cleaned up), every result of the result list has
\* a key that is a key of the Index.
C2_ResultsReferenceIndex ==
    ~poolTerminated => ResultKeys(allDuplicates) \subseteq DOMAIN emailIndex

\* C3: when a Phase-3 filtering completes, the Prefilter equals a fresh filter
\* to which exactly the keys of the rebuilt Index were added.
C3_PrefilterRebuilt ==
    [][Phase3Completes => bitArray' = BloomOfSet(DOMAIN emailIndex')]_vars

\* C10: a processFiles call made while a run is marked active is rejected and
\* changes nothing: Index, Prefilter, result list, counters, isProcessing,
\* start time, stored basis source and mapping, the runs in flight and the
\* pool all stay as they are.
C10_ConcurrentStartRejected ==
    [][(/\ isProcessing
        /\ lastCall'.op = "processFiles"
        /\ (lastCall' # lastCall \/ Len(runs') # Len(runs)))
       => /\ lastCall'.result = "rejected"
          /\ UNCHANGED <<emailIndex, bitArray, allDuplicates, summary, isProcessing,
                         isPaused, currentPhase, startTime, rowsProcessed,
                         originalBasisFile, currentColumnMapping, filteredDomains,
                         finalFilteredBasisData, published, runs, p3, poolVars>>]_vars

C10_Witness ==
    /\ lastCall.result = "rejected"
    /\ isProcessing
    /\ Len(runs) = 1 /\ runs[1].pc = "cmp_work"
    /\ emailIndex # EmptyIndex

\* a step that starts a run
RunStarts ==
    Len(runs') = Len(runs) + 1

CmpStages == {"cmp_pull", "cmp_paused", "cmp_acquire", "cmp_work", "gc"}

\* the keys of the rows of a file under the mapping the detector uses for it
FileKeys(file, defaultMapping) ==
    {normalizeEmail(Field(file.rows[i],
                          getEffectiveColumnMapping(file.name, defaultMapping).emailColumn)) :
        i \in 1..Len(file.rows)} \ {<<>>}

\* C11: the step that starts a run in Phase 1 leaves the Index empty, the
\* Prefilter without a set bit, the result list empty and the phase counters
\* zero, with the run at the first pull of its basis source; a batch of the
\* basis source changes no result; and the run goes on to its comparison
\* sources only when the stream of the basis source has ended with every row
\* handed to the index builder and every key of the basis added to the
\* Prefilter.
C11_Phase1ResetsThenIngestsBasis ==
    [][/\ (RunStarts /\ currentPhase = "phase1") =>
            /\ emailIndex' = EmptyIndex
            /\ bitArray' = {}
            /\ allDuplicates' = <<>>
            /\ summary' = ZeroSummary
            /\ runs'[Len(runs')].pc = "basis_pull"
            /\ runs'[Len(runs')].pos = 0
       /\ \A r \in 1..Len(runs) :
            /\ (runs[r].pc = "basis_work" /\ runs'[r].pc # "basis_work") =>
                    allDuplicates' = allDuplicates /\ published' = published
            /\ (InBasis(runs[r]) /\ runs'[r].pc \in CmpStages) =>
                    /\ runs[r].pos = Len(runs[r].basisFile.rows)
                    /\ rowsProcessed' = Len(runs[r].basisFile.rows)
                    /\ \A k \in FileKeys(runs[r].basisFile, runs[r].mapping) :
                            BloomTest(bitArray', k)]_vars

\* a second run has started in Phase 1 after a run and a Phase-3 filtering
\* that left results published and a filtered basis behind
C11_Witness ==
    /\ Len(runs) = 2
    /\ runs[1].pc = "done"
    /\ runs[2].phase = "phase1"
    /\ runs[2].pc = "cmp_work"
    /\ published.list # <<>>
    /\ finalFilteredBasisData # <<>>
    /\ filteredDomains # <<>>

IsPrefix(s, t) ==
    Len(s) <= Len(t) /\ SubSeq(t, 1, Len(s)) = s

RunInFlight(run) ==
    run.pc \notin {"done", "failed"}

\* C12: the step that starts a run in Phase 2 changes neither the Index, the
\* Prefilter nor the result list and does not enter the basis source; and
\* while a run started in Phase 2 is in flight (the detector not cleaned up)
\* no step changes the Index or the Prefilter, every step leaves the result
\* list a prefix of the new one, and the run never ingests a basis batch.
C12_Phase2RunKeepsIndex ==
    [][/\ (RunStarts /\ currentPhase = "phase2") =>
            /\ emailIndex' = emailIndex
            /\ bitArray' = bitArray
            /\ allDuplicates' = allDuplicates
            /\ ~InBasis(runs'[Len(runs')])
       /\ \A r \in 1..Len(runs) :
            (runs[r].phase = "phase2" /\ RunInFlight(runs[r]) /\ ~poolTerminated') =>
                /\ emailIndex' = emailIndex
                /\ bitArray' = bitArray
                /\ IsPrefix(allDuplicates, allDuplicates')
                /\ ~InBasis(runs'[r])]_vars

PhaseRank(phase) ==
    CASE phase = "phase1" -> 1 [] phase = "phase2" -> 2 [] phase = "phase3" -> 3

\* C13: no step moves the phase to an earlier phase.
C13_PhaseOnlyForward ==
    [][PhaseRank(currentPhase') >= PhaseRank(currentPhase)]_vars

\* the candidates the matcher scans for row i of the chunk it was called with
WkCandidates(i) ==
    LET email == normalizeEmail(Field(wk.chunk[i], wk.columnMapping.emailColumn))
    IN  IF email # <<>> /\ email \in DOMAIN wk.emailIndex
        THEN wk.emailIndex[email] ELSE <<>>

WkNames(i) ==
    NameParts(wk.chunk[i], wk.columnMapping)

NormName(name) ==
    trim(toLowerCase(name))

SameNames(names, candidate) ==
    /\ NormName(names.firstName) = NormName(candidate.firstName)
    /\ NormName(names.lastName) = NormName(candidate.lastName)

\* the results the matcher returned for row i of the chunk
WkResultsOf(i) ==
    SelectSeq(wk.result, LAMBDA d : d.rowIndex = i - 1)

\* C14: for every row of a chunk handed to the matcher and every candidate
\* under the row's key the confidence is between 0 and 1, and it is 1 only
\* when the candidate has the row's key and first and last names equal to the
\* row's after lowercasing and trimming; the same holds of the confidence of
\* every result.
C14_ConfidenceBounds ==
    wk.op = "findDuplicates" =>
        \A i \in 1..Len(wk.chunk) :
            /\ \A j \in 1..Len(WkCandidates(i)) :
                LET c == CandidateConfidence(WkNames(i), WkCandidates(i)[j])
                IN  /\ c.den > 0 /\ 0 <= c.num /\ c.num <= c.den
                    /\ c.num = c.den =>
                          /\ SameNames(WkNames(i), WkCandidates(i)[j])
                          /\ WkCandidates(i)[j].email =
                                normalizeEmail(Field(wk.chunk[i],
                                                     wk.columnMapping.emailColumn))
            /\ \A n \in 1..Len(WkResultsOf(i)) :
                LET d == WkResultsOf(i)[n]
                IN  /\ d.confidence.den > 0
                    /\ 0 <= d.confidence.num /\ d.confidence.num <= d.confidence.den
                    /\ d.confidence.num = d.confidence.den =>
                          \E j \in 1..Len(WkCandidates(i)) :
                              /\ SameNames(d, WkCandidates(i)[j])
                              /\ WkCandidates(i)[j].email = d.email

\* a row matched with confidence 1 a candidate whose names differ from its
\* own in case and surrounding space only, next to a candidate scoring less
C14_Witness ==
    /\ wk.op = "findDuplicates"
    /\ Len(wk.chunk) = 1
    /\ Len(wk.result) = 1
    /\ wk.result[1].confidence = [num |-> 3, den |-> 3]
    /\ wk.result[1].lastName = NameStr.doe_sp
    /\ Len(WkCandidates(1)) = 2
    /\ ~SameNames(WkNames(1), WkCandidates(1)[1])

\* the positions of the candidates of row i that come from another source
\* than the chunk
WkOtherSource(i) ==
    {j \in 1..Len(WkCandidates(i)) : WkCandidates(i)[j].sourceFile # wk.sourceFile}

WkConfidence(i, j) ==
    CandidateConfidence(WkNames(i), WkCandidates(i)[j])

AtLeast70(c) ==
    100 * c.num >= 70 * c.den

\* C15: the matcher emits a result for a row exactly when some candidate
\* under the row's key from another source has confidence >= 0.70; the
\* confidence of every result is that of such a candidate, so it is >= 0.70.
C15_AcceptedIffAtLeast70 ==
    wk.op = "findDuplicates" =>
        \A i \in 1..Len(wk.chunk) :
            /\ (WkResultsOf(i) # <<>>) <=>
                   (\E j \in WkOtherSource(i) : AtLeast70(WkConfidence(i, j)))
            /\ \A n \in 1..Len(WkResultsOf(i)) :
                /\ AtLeast70(WkResultsOf(i)[n].confidence)
                /\ \E j \in WkOtherSource(i) :
                       WkResultsOf(i)[n].confidence = WkConfidence(i, j)

\* of two rows the first has a result and the second has none, although a
\* candidate from another source scores two thirds for it
C15_Witness ==
    /\ wk.op = "findDuplicates"
    /\ Len(wk.chunk) = 2
    /\ Len(WkResultsOf(1)) = 1
    /\ WkResultsOf(2) = <<>>
    /\ \E j \in WkOtherSource(2) : WkConfidence(2, j) = [num |-> 2, den |-> 3]

\* C16: the matcher emits at most one result per row, and its confidence is
\* that of the first candidate, in the order of the records under the key,
\* that is from another source and scores >= 0.70.
C16_FirstQualifyingOnly ==
    wk.op = "findDuplicates" =>
        \A i \in 1..Len(wk.chunk) :
            /\ Len(WkResultsOf(i)) <= 1
            /\ WkResultsOf(i) # <<>> =>
                 \E j \in WkOtherSource(i) :
                    /\ AtLeast70(WkConfidence(i, j))
                    /\ \A g \in WkOtherSource(i) : AtLeast70(WkConfidence(i, g)) => j <= g
                    /\ WkResultsOf(i)[1].confidence = WkConfidence(i, j)

\* two candidates of a row qualify, the second with confidence 1, and the one
\* result has the lower confidence of the first
C16_Witness ==
    /\ wk.op = "findDuplicates"
    /\ Len(wk.chunk) = 1
    /\ WkOtherSource(1) = {1, 2}
    /\ AtLeast70(WkConfidence(1, 1))
    /\ WkConfidence(1, 2) = [num |-> 3, den |-> 3]
    /\ Len(wk.result) = 1
    /\ wk.result[1].confidence # [num |-> 3, den |-> 3]

\* C17: every result of a row has the confidence of a candidate from another
\* source than the row's, and a row whose candidates all come from its own
\* source has no result.
C17_SameSourceExcluded ==
    wk.op = "findDuplicates" =>
        \A i \in 1..Len(wk.chunk) :
            /\ WkOtherSource(i) = {} => WkResultsOf(i) = <<>>
            /\ \A n \in 1..Len(WkResultsOf(i)) :
                 /\ WkResultsOf(i)[n].sourceFile = wk.sourceFile
                 /\ \E j \in WkOtherSource(i) :
                        WkResultsOf(i)[n].confidence = WkConfidence(i, j)

\* a row has no result although both records under its key have its names:
\* they come from the row's own source
C17_Witness ==
    /\ wk.op = "findDuplicates"
    /\ Len(wk.chunk) = 1
    /\ Len(WkCandidates(1)) = 2
    /\ WkOtherSource(1) = {}
    /\ \A j \in 1..2 : SameNames(WkNames(1), WkCandidates(1)[j])
    /\ WkNames(1).firstName # <<>> /\ WkNames(1).lastName # <<>>
    /\ wk.result = <<>>

\* the split of a string at its first space: the text before the first space
\* and the remainder after it, or the whole string and an empty last name
\* when it has no space
SplitAtFirstSpace(t) ==
    LET spaces == {i \in 1..Len(t) : t[i] = Chr.sp}
    IN  IF spaces = {} THEN [firstName |-> t, lastName |-> <<>>]
        ELSE LET p == CHOOSE i \in spaces : \A j \in spaces : i <= j
             IN  [firstName |-> [i \in 1..(p - 1) |-> t[i]],
                  lastName |-> [i \in 1..(Len(t) - p) |-> t[p + i]]]

\* the split of a combined name, of the value as it is and of the trimmed value
RefSplitRaw(value) ==
    SplitAtFirstSpace(value)

RefSplit(value) ==
    SplitAtFirstSpace(trim(value))

SplitConfigured(m) ==
    m.splitNameColumn /\ m.firstNameColumn = m.lastNameColumn

\* the record of row i in an index built from the chunk of the last call
RecordOfRow(index, i) ==
    LET k == normalizeEmail(Field(wk.chunk[i], wk.columnMapping.emailColumn))
        at == {j \in 1..Len(index[k]) : index[k][j].rowIndex = i - 1}
    IN  index[k][CHOOSE j \in at : TRUE]

WkKeyedRows ==
    {i \in 1..Len(wk.chunk) :
        normalizeEmail(Field(wk.chunk[i], wk.columnMapping.emailColumn)) # <<>>}

C20_NoEmptyKey ==
    \A k \in DOMAIN emailIndex :
        /\ k # <<>>
        /\ k = trim(toLowerCase(k))
        /\ emailIndex[k] # <<>>

\* a run has ingested the basis file, with its blank-key row and its row
\* without a key column, and finished; a Phase-3 filtering has rebuilt the
\* Index from the same rows
C20_Witness ==
    /\ Len(runs) = 1
    /\ runs[1].pc = "done"
    /\ runs[1].basisFile = BasisA
    /\ \E i \in 1..Len(BasisA.rows) : "email" \notin DOMAIN BasisA.rows[i]
    /\ \E i \in 1..Len(BasisA.rows) :
          /\ "email" \in DOMAIN BasisA.rows[i]
          /\ BasisA.rows[i].email # <<>>
          /\ trim(BasisA.rows[i].email) = <<>>
    /\ rowsProcessed >= Len(BasisA.rows)
    /\ Len(finalFilteredBasisData) = Len(BasisA.rows)
    /\ summary.phase3FilteredCount > 0
    /\ Cardinality(DOMAIN emailIndex) = 2

SameFraction(a, b) ==
    a.num * b.den = b.num * a.den

\* the similarity of two names as the specification defines it: on the
\* lowercased, trimmed strings, 0 when either is empty, else the number of
\* positions within the shorter length at which they agree over the length
\* of the longer (which is 1 for identical strings)
RefSimilarity(str1, str2) ==
    LET a == trim(toLowerCase(str1))
        b == trim(toLowerCase(str2))
    IN  IF a = <<>> \/ b = <<>> THEN [num |-> 0, den |-> 1]
        ELSE [num |-> Cardinality({i \in 1..Min(Len(a), Len(b)) : a[i] = b[i]}),
              den |-> IF Len(a) > Len(b) THEN Len(a) ELSE Len(b)]

\* C18: calculateSimilarity returns the similarity of the reference
\* definition for every pair of strings.
C18_SimilarityIsReference ==
    wk.op = "calculateSimilarity" =>
        SameFraction(wk.result, RefSimilarity(wk.str1, wk.str2))

\* the run waits in waitIfPaused with its batch not yet handed to the pool
BlockedInPause(r) ==
    runs[r].pc \in {"basis_paused", "cmp_paused"}

\* the step hands a batch of the run to the pool: getWorker is called for it
\* and the batch goes to a unit or waits for one
DispatchStep(r) ==
    /\ runs[r].pc \in {"basis_pull", "basis_paused", "cmp_pull", "cmp_paused"}
    /\ runs'[r].pc \in {"basis_acquire", "basis_work", "cmp_acquire", "cmp_work"}

\* C21: while a run waits at a batch boundary where it found isPaused true
\* and resume() has not been called since, no step hands the waiting batch
\* to the pool and no step changes the Index or the result list.
C21_PausedUntilResume ==
    [][\A r \in 1..Len(runs) :
        (BlockedInPause(r) /\ ~runs[r].resumed) =>
            /\ ~DispatchStep(r)
            /\ emailIndex' = emailIndex
            /\ allDuplicates' = allDuplicates]_vars

\* C22: once the run in progress is stopped (isProcessing false while it is
\* in flight) no step hands a further batch of it to the pool, also when the
\* run waited in pause at the moment of the stop; and the step of stop()
\* leaves the result list as it is.
C22_NoDispatchAfterStop ==
    [][/\ \A r \in 1..Len(runs) :
            (RunInFlight(runs[r]) /\ ~isProcessing) => ~DispatchStep(r)
       /\ (isProcessing /\ ~isProcessing' /\ runs' = runs) =>
            allDuplicates' = allDuplicates]_vars

\* the step in which the stream of a source that failed to parse answers a
\* pull of the run (not stopped) with something other than a batch
SourceFailureSeen(r) ==
    /\ runs[r].pc \in {"basis_pull", "cmp_pull"}
    /\ ~RunFile(runs[r]).ok
    /\ isProcessing
    /\ runs'[r] # runs[r]
    /\ ~(runs'[r].pos > runs[r].pos)

\* C23: when a source of a run has failed to parse, the run ends as failed
\* (processFiles rejects) with isProcessing false; a failed run takes no
\* further step (no batch of it is pulled, dispatched or merged); and
\* whenever a run has failed and no run is in flight the controller is idle
\* and a processFiles call starts a new run.
C23_FailureAbortsRun ==
    /\ [][\A r \in 1..Len(runs) :
            /\ SourceFailureSeen(r) => (runs'[r].pc = "failed" /\ ~isProcessing')
            /\ runs[r].pc = "failed" => runs'[r] = runs[r]]_vars
    /\ []((/\ \E r \in 1..Len(runs) : runs[r].pc = "failed"
           /\ \A r \in 1..Len(runs) : ~RunInFlight(runs[r]))
          => /\ ~isProcessing
             /\ \A basisFile \in BasisFiles, comparisonFiles \in ComparisonLists,
                  mapping \in Mappings :
                    LET S == processFiles(State, basisFile, comparisonFiles, mapping)
                    IN  /\ S.lastCall.result = "started"
                        /\ Len(S.runs) = Len(runs) + 1)

RECURSIVE Flatten(_)
Flatten(batches) ==
    IF batches = <<>> THEN <<>> ELSE Head(batches) \o Flatten(Tail(batches))

\* the generator runs in this step: it answers a pull, or goes on after its
\* await
GeneratorRuns ==
    /\ stream.pc \in {"created", "yielded", "yielded_last", "resumed"}
    /\ stream'.pc # stream.pc

\* C24: once the parser has reported a parse failure, the next time the
\* generator runs it throws the failure to the consumer, whatever the queue
\* holds and whether or not the consumer was waiting; the sequence never
\* ends normally after a parse failure; and the batches yielded before stay
\* as they were.
C24_ParseFailureSurfaces ==
    /\ [][(stream.pc # "none" /\ stream.parseError /\ GeneratorRuns) =>
            /\ stream'.pc = "thrown"
            /\ stream'.yielded = stream.yielded]_vars
    /\ [](stream.pc = "returned" => ~stream.parseError)

\* C25: for a source whose parse completes without error, the batches
\* yielded so far are, one after the other, the first rows of the source in
\* parse order; no batch is empty or longer than the configured size, every
\* batch but the last has exactly that size, and a shorter batch is the
\* last one; the sequence ends only after the parser signalled completion
\* and then the batches are all the rows; and the sequence does end.
C25_BatchesAreTheRows ==
    /\ []((stream.pc # "none" /\ stream.file.ok) =>
            LET ys == stream.yielded
                n == Len(ys)
                size == stream.chunkSize
            IN  /\ IsPrefix(Flatten(ys), stream.file.rows)
                /\ \A k \in 1..n : Len(ys[k]) \in 1..size
                /\ \A k \in 1..(n - 1) : Len(ys[k]) = size
                /\ (n > 0 /\ Len(ys[n]) < size) =>
                        stream.pc \in {"yielded_last", "returned"}
                /\ stream.pc # "thrown"
                /\ stream.pc = "returned" =>
                        /\ stream.isParsingComplete
                        /\ Flatten(ys) = stream.file.rows)
    /\ ((stream.pc # "none" /\ stream.file.ok) ~> stream.pc = "returned")

\* a source of five rows was pushed in pieces of different sizes, the queue
\* held more than a batch, and the sequence ended with a short last batch
C25_Witness ==
    /\ stream.pc = "returned"
    /\ stream.file.ok
    /\ Len(stream.file.rows) = 5
    /\ Len(stream.yielded) = 3
    /\ Len(stream.yielded[3]) = 1

\* the run leaves the batch loop of the source it was streaming and goes on
\* (it has not failed)
SourceLeft(r) ==
    /\ runs[r].pc \notin {"gc", "done", "failed"}
    /\ runs'[r].pc # "failed"
    /\ \/ runs'[r].i # runs[r].i
       \/ runs'[r].pc \in {"gc", "done"}
       \/ InBasis(runs[r]) /\ ~InBasis(runs'[r])

\* C26: a run holds a pool unit only while one batch of it is with the pool,
\* and no more units are busy than runs hold one (a run holds at most one, its
\* request being a single record); a batch is handed to the pool only
\* when the run holds no unit, and it is the slice of the source's rows that
\* ends at the run's position and starts at a multiple of the batch size,
\* the position never moving back within a source; and a run leaves a source
\* to go on only with no batch in hand, no unit held, and the source's stream
\* at its end (or the run stopped).
C26_OneBatchAtATime ==
    /\ [](/\ BusyCount(workers) <= Cardinality(Holders(reqState) \cap 1..Len(runs))
          /\ \A r \in Holders(reqState) :
                r \in 1..Len(runs) =>
                    runs[r].pc \in {"basis_acquire", "basis_work",
                                    "cmp_acquire", "cmp_work", "failed"})
    /\ [][\A r \in 1..Len(runs) :
            /\ DispatchStep(r) =>
                /\ r \notin Holders(reqState)
                /\ runs'[r].chunk # <<>>
                /\ runs'[r].chunk =
                        SubSeq(RunFile(runs'[r]).rows,
                               runs'[r].pos - Len(runs'[r].chunk) + 1, runs'[r].pos)
                /\ (runs'[r].pos - Len(runs'[r].chunk)) % ChunkSize(runs'[r]) = 0
            /\ (~SourceLeft(r) /\ runs[r].pc # "gc") => runs'[r].pos >= runs[r].pos
            /\ SourceLeft(r) =>
                /\ runs[r].chunk = <<>>
                /\ r \notin Holders(reqState')
                /\ \/ runs[r].pos = Len(RunFile(runs[r]).rows)
                   \/ ~isProcessing]_vars

\* the second batch of the first comparison source is with a pool unit
C26_Witness ==
    /\ Len(runs) = 1
    /\ runs[1].pc = "cmp_work"
    /\ runs[1].i = 1
    /\ runs[1].pos = 3
    /\ BusyCount(workers) = 1
    /\ allDuplicates # <<>>

\* the step in which a comparison batch of the run has been processed
CmpBatchDone(r) ==
    /\ runs[r].pc \in CmpStages
    /\ rowsProcessed' > rowsProcessed

\* C27: the step in which a comparison batch of a run has been processed
\* hands the observer the full result list as it is after the batch; and
\* while a run is at its comparison sources every step leaves the result
\* list a prefix of the new one, so that each list the run publishes extends
\* the list it published before.
C27_PublishedAfterEveryBatch ==
    [][\A r \in 1..Len(runs) :
        /\ CmpBatchDone(r) =>
                published' = [emitted |-> TRUE, list |-> allDuplicates']
        /\ (runs[r].pc \in CmpStages /\ RunInFlight(runs'[r])) =>
                IsPrefix(allDuplicates, allDuplicates')]_vars

\* the step starts a run in Phase 1, which resets the detector
Phase1Reset ==
    RunStarts /\ currentPhase = "phase1"

\* C28: exportFinalModifiedBasisFile is rejected, with nothing saved, exactly
\* when no Phase-3 filtering has completed since the last Phase-1 reset: it
\* is rejected at the start, the step of a Phase-1 reset leaves it rejected,
\* it stays rejected in every step in which no Phase-3 filtering completes,
\* the completion of a Phase-3 filtering makes it accepted, and it stays
\* accepted until the next Phase-1 reset.  exportPhase3Logs is rejected
\* exactly as long as no Phase-3 filtering was asked for, and
\* exportModifiedBasisFile exactly as long as no run was started with a
\* basis source.
C28_ExportNeedsUpstream ==
    /\ [][/\ Phase1Reset =>
                exportFinalModifiedBasisFile(State)' = ExportRejected
          /\ (exportFinalModifiedBasisFile(State) = ExportRejected /\ ~Phase3Completes) =>
                exportFinalModifiedBasisFile(State)' = ExportRejected
          /\ Phase3Completes =>
                exportFinalModifiedBasisFile(State)'.result = "saved"
          /\ (exportFinalModifiedBasisFile(State).result = "saved" /\ ~Phase1Reset) =>
                exportFinalModifiedBasisFile(State)'.result = "saved"]_vars
    /\ [](/\ (runs = <<>> /\ filteredDomains = <<>>) =>
                exportFinalModifiedBasisFile(State) = ExportRejected
          /\ exportPhase3Logs(State) = ExportRejected <=> filteredDomains = <<>>
          /\ exportModifiedBasisFile(State) = ExportRejected <=> runs = <<>>)

\* the key of the row has a domain that, lowercased and trimmed, is in the
\* filter set
DomainFiltered(row, emailColumn, domainsToFilter) ==
    LET key == normalizeEmail(Field(row, emailColumn))
    IN  /\ key # <<>>
        /\ trim(toLowerCase(KeyDomain(key))) \in NormalizeDomains(domainsToFilter)

\* C29: when a Phase-3 filtering completes, the filtered basis data has as
\* many rows as the re-parsed basis file, in the same order; each row is
\* either unchanged, or it is a row whose key's domain is in the filter set
\* and differs from the parsed row only in its key field, which is empty;
\* and the count of the filtering is the number of rows that were changed.
C29_Phase3RetainsRows ==
    [][Phase3Completes =>
        LET rows == p3.file.rows
            data == finalFilteredBasisData'
            col == currentColumnMapping.emailColumn
        IN  /\ Len(data) = Len(rows)
            /\ \A i \in 1..Len(rows) :
                \/ data[i] = rows[i]
                \/ /\ DomainFiltered(rows[i], col, filteredDomains)
                   /\ DOMAIN data[i] = DOMAIN rows[i]
                   /\ data[i][col] = <<>>
                   /\ \A f \in DOMAIN rows[i] \ {col} : data[i][f] = rows[i][f]
            /\ summary'.phase3FilteredCount =
                    Cardinality({i \in 1..Len(rows) : data[i] # rows[i]})]_vars

\* a Phase-3 filtering has cleared the key of one row of the basis file and
\* kept the other four rows, a row without a key column among them
C29_Witness ==
    /\ p3.pc = "idle"
    /\ summary.phase3FilteredCount = 1
    /\ Len(finalFilteredBasisData) = 5
    /\ finalFilteredBasisData[1].email = <<>>
    /\ finalFilteredBasisData[1].lastname = Str.Do
    /\ finalFilteredBasisData[2] = BasisA.rows[2]
    /\ finalFilteredBasisData[5] = BasisA.rows[5]

\* the rows of a file cut into batches of the given size, in order
BatchesOf(rows, size) ==
    [k \in 1..((Len(rows) + size - 1) \div size) |->
        SubSeq(rows, (k - 1) * size + 1, Min(k * size, Len(rows)))]

\* the index a basis file gives when its batches are indexed one after the
\* other
RECURSIVE IndexOfBatches(_, _, _, _)
IndexOfBatches(batches, n, sourceFile, m) ==
    IF n = 0 THEN EmptyIndex
    ELSE MergeIndex(IndexOfBatches(batches, n - 1, sourceFile, m),
                    buildEmailIndex(batches[n], sourceFile, m))

\* the results the first n batches of a comparison file give against an index
RECURSIVE ResultsOfBatches(_, _, _, _, _)
ResultsOfBatches(batches, n, index, sourceFile, m) ==
    IF n = 0 THEN <<>>
    ELSE ResultsOfBatches(batches, n - 1, index, sourceFile, m)
            \o findDuplicates(batches[n], index, sourceFile, m)

\* the results the first n comparison files give against an index
RECURSIVE ResultsOfFiles(_, _, _, _)
ResultsOfFiles(files, n, index, mapping) ==
    IF n = 0 THEN <<>>
    ELSE LET batches == BatchesOf(files[n].rows, ComparisonChunkSize)
         IN  ResultsOfFiles(files, n - 1, index, mapping)
                \o ResultsOfBatches(batches, Len(batches), index, files[n].name,
                                    getEffectiveColumnMapping(files[n].name, mapping))

\* the result list of a Phase-1 run as a function of its inputs alone
ResultsOfInputs(basisFile, comparisonFiles, mapping) ==
    LET batches == BatchesOf(basisFile.rows, BasisChunkSize)
        index == IndexOfBatches(batches, Len(batches), basisFile.name,
                                getEffectiveColumnMapping(basisFile.name, mapping))
    IN  ResultsOfFiles(comparisonFiles, Len(comparisonFiles), index, mapping)

\* all rows of the run's sources
TotalRows(run) ==
    Len(run.basisFile.rows) + Len(Flatten([j \in 1..Len(run.files) |-> run.files[j].rows]))

\* the step ends a run that was started in Phase 1 and has processed every
\* row of its sources
Phase1RunCompletes(r) ==
    /\ runs[r].phase = "phase1"
    /\ RunInFlight(runs[r])
    /\ runs'[r].pc = "done"
    /\ rowsProcessed' = TotalRows(runs[r])

C31_IndexKeysInPrefilter ==
    \A k \in DOMAIN emailIndex : BloomTest(bitArray, k)

\* a Phase-3 filtering has rebuilt the Index with fewer keys than the
\* Prefilter holds: the Prefilter is not the fresh filter of the Index
C31_Witness ==
    /\ Len(phase3LogMessages) > 0
    /\ phase3LogMessages[Len(phase3LogMessages)] = "complete"
    /\ emailIndex # EmptyIndex
    /\ bitArray # BloomOfSet(DOMAIN emailIndex)
    /\ \E r \in 1..Len(runs) : runs[r].pc = "done"

\* C32: at most one run is in flight.
C32_OneRunInFlight ==
    Cardinality({r \in 1..Len(runs) : RunInFlight(runs[r])}) <= 1

\* the run holds a batch it has pulled: it waits in pause or for a unit, or
\* the batch is at a unit
HasBatchInHand(run) ==
    run.pc \in {"basis_paused", "cmp_paused", "basis_acquire", "cmp_acquire",
                "basis_work", "cmp_work"}

\* C33: a Phase-3 filtering replaces the Index and prunes the result list
\* only in a step in which no run has a batch in flight or is paused, and no
\* run starts while a Phase-3 filtering is under way.
C33_Phase3NotDuringRun ==
    [][/\ Phase3Completes => \A r \in 1..Len(runs) : ~HasBatchInHand(runs[r])
       /\ RunStarts => p3.pc = "idle"]_vars

\* a step in which applyPhase3Filtering is called with a basis file stored
Phase3Called ==
    /\ p3.pc = "idle"
    /\ p3'.pc = "parsing"

\* C34: the step in which applyPhase3Filtering is called and returns leaves
\* no part of the filtering pending: the Index, the result list and the
\* counters are those of the completed filtering.
C34_Phase3DoneOnReturn ==
    [][Phase3Called =>
        LET done == filterModifiedBasisFile(applyPhase3Filtering(State, filteredDomains'))
        IN  /\ p3'.pc = "idle"
            /\ emailIndex' = done.emailIndex
            /\ allDuplicates' = done.allDuplicates
            /\ summary' = done.summary]_vars

\* C35: a step in which a run ends a batch it held leaves the run without a
\* unit, whether the batch succeeded, failed or had no candidate key; the
\* units marked busy are never more than the runs that hold one; and when no
\* run is in flight every unit is idle and the wait queue is empty.
C35_UnitsReleased ==
    /\ [][\A r \in 1..Len(runs) :
            (HasBatchInHand(runs[r]) /\ ~HasBatchInHand(runs'[r])) =>
                /\ r \in DOMAIN reqState'
                /\ reqState'[r].st \in {"released", "rejected"}]_vars
    /\ [](/\ BusyCount(workers) <= Cardinality(Holders(reqState))
          /\ (\A r \in 1..Len(runs) : ~RunInFlight(runs[r])) =>
                /\ BusyCount(workers) = 0
                /\ queue = <<>>)

\* a run was aborted by a failed worker call and the pool is idle again
C35_Witness ==
    /\ Len(runs) = 1
    /\ runs[1].pc = "failed"
    /\ runs[1].chunk # <<>>
    /\ reqState[1].st = "released"
    /\ ~poolTerminated
    /\ BusyCount(workers) = 0

\* the run has settled: processFiles resolved or rejected
Settled(r) ==
    /\ r <= Len(runs)
    /\ runs[r].pc \in {"done", "failed"}

\* the batch of the run is at a unit that terminate() has shut down: the call
\* never returns
CallCutOff(r) ==
    /\ r <= Len(runs)
    /\ runs[r].pc \in {"basis_work", "cmp_work"}
    /\ reqState[r].unit \notin 1..Len(workers)

\* C36: every run that has started eventually settles with isProcessing
\* false, whatever the number of units of the pool, unless a call it
\* dispatched is never answered.
C36_RunsFinish ==
    \A r \in 1..MaxRuns :
        (r <= Len(runs)) ~> ((Settled(r) /\ ~isProcessing) \/ CallCutOff(r))

\* stop() was called while the run waited in pause, and neither resume() nor
\* pause() since
StoppedInPause(r) ==
    /\ r <= Len(runs)
    /\ BlockedInPause(r)
    /\ ~runs[r].resumed
    /\ ~isProcessing
    /\ ~isPaused

\* C37: a run that is stopped while it waits in pause eventually settles, with
\* isProcessing false, without resume() being called; and stop() leaves the
\* detector not paused.
C37_StopEndsPausedRun ==
    /\ \A r \in 1..MaxRuns :
        StoppedInPause(r) ~>
            \/ Settled(r) /\ ~isProcessing
            \/ r <= Len(runs) /\ runs[r].resumed
    /\ [][(isProcessing /\ ~isProcessing' /\ runs' = runs) => ~isPaused']_vars

\* the comparison sources of the model and the batches of each
ComparisonSources ==
    UNION {{files[i] : i \in 1..Len(files)} : files \in ComparisonLists}

ComparisonBatches(file) ==
    LET batches == BatchesOf(file.rows, ComparisonChunkSize)
    IN  {batches[i] : i \in 1..Len(batches)}

\* C38: with the Index and the Prefilter as they are, every batch of every
\* comparison source yields the same results matched against the subset of
\* the Index that the Prefilter lets through as matched against the whole
\* Index; a batch with no key that passes the Prefilter yields none.
C38_PrefilterKeepsResults ==
    \A file \in ComparisonSources : \A chunk \in ComparisonBatches(file) :
        LET m == getEffectiveColumnMapping(file.name, DefaultMapping)
            cands == CandidateEmails(chunk, m, bitArray)
            full == findDuplicates(chunk, emailIndex, file.name, m)
        IN  /\ findDuplicates(chunk, getIndexSubset(emailIndex, cands), file.name, m) = full
            /\ cands = {} => full = <<>>

\* a batch is at a unit with a subset that is a proper part of the Index and
\* yields a result
C38_Witness ==
    \E r \in 1..Len(runs) :
        /\ runs[r].pc = "cmp_work"
        /\ runs[r].subset # EmptyIndex
        /\ runs[r].subset = getIndexSubset(emailIndex,
                                CandidateEmails(runs[r].chunk, RunMapping(runs[r]), bitArray))
        /\ DOMAIN runs[r].subset # DOMAIN emailIndex
        /\ findDuplicates(runs[r].chunk, runs[r].subset,
                          RunFile(runs[r]).name, RunMapping(runs[r])) # <<>>

\* the source of a result of the list
SourceOf(d) ==
    CHOOSE file \in ComparisonSources : file.name = d.sourceFile

\* C39: the results of the list have pairwise distinct ids, and the row of
\* a result's source at the result's row position is the row the result was
\* made from: it carries the result's key.
C39_DistinctIdsAndPositions ==
    /\ \A i, j \in 1..Len(allDuplicates) :
            i # j => allDuplicates[i].id # allDuplicates[j].id
    /\ \A i \in 1..Len(allDuplicates) :
            LET d == allDuplicates[i]
                file == SourceOf(d)
                m == getEffectiveColumnMapping(file.name, DefaultMapping)
            IN  /\ d.rowIndex + 1 \in 1..Len(file.rows)
                /\ normalizeEmail(Field(file.rows[d.rowIndex + 1], m.emailColumn)) = d.email

\* the step in which a run ends through the end of processFiles
RunEnds(r) ==
    /\ runs[r].pc # "done"
    /\ runs'[r].pc = "done"

\* C40: when a run started in Phase 1 (Phase 2) ends in that phase, stopped
\* or not, the phase's files-processed counter is the number of comparison
\* sources the run entered and its duplicates-found counter the number of
\* results appended since the run began its comparison sources; and after a
\* Phase-1 run and a Phase-2 run, with no Phase-3 filtering, the two
\* duplicates-found counters add up to the length of the result list.
C40_PhaseCounters ==
    /\ [][\A r \in 1..Len(runs) :
            (RunEnds(r) /\ runs[r].phase = currentPhase) =>
                /\ currentPhase = "phase1" =>
                    /\ summary'.phase1FilesProcessed = runs'[r].i - 1
                    /\ summary'.phase1DuplicatesCount =
                            Len(allDuplicates') - runs'[r].before
                /\ currentPhase = "phase2" =>
                    /\ summary'.phase2FilesProcessed = runs'[r].i - 1
                    /\ summary'.phase2DuplicatesCount =
                            Len(allDuplicates') - runs'[r].before]_vars
    /\ []((/\ Len(runs) = 2
           /\ runs[1].pc = "done" /\ runs[1].phase = "phase1"
           /\ runs[2].pc = "done" /\ runs[2].phase = "phase2"
           /\ phase3LogMessages = <<>>)
          => summary.phase1DuplicatesCount + summary.phase2DuplicatesCount
                = Len(allDuplicates))

====
